---- MODULE Spec2Model ----
(***************************************************************************)
(* A model of the Birthday Tracker integration (custom_components/         *)
(* birthday_tracker): the record store (store.py), the date arithmetic and *)
(* the service handlers (__init__.py), the options flow (config_flow.py)   *)
(* and the calendar's date helpers (calendar.py).                          *)
(*                                                                         *)
(* Representation.  A stored date string "YYYY-MM-DD" is the record        *)
(* [y, m, d] of the three integers that split("-") and int() read back     *)
(* from it (the code only ever formats non-negative integers into it).     *)
(* An optional value (None, or a key that is absent from a dict) is a      *)
(* sequence of length 0, a present value v is <<v>>.                       *)
(***************************************************************************)
EXTENDS Integers, Sequences, FiniteSets, TLC

VARIABLES
    _birthdays,   \* BirthdayStore._birthdays: the in-memory record list
    persisted,    \* the document the storage helper holds on disk
    call,         \* the store operation that completed last, with its arguments
    ret,          \* the value that operation returned
    default_reminder_days,       \* the closure variable of async_setup_entry
    hass_default_reminder_days,  \* hass.data[DOMAIN]["default_reminder_days"]
    req,          \* the request handled last: handler, outcome, events fired
    dicts,        \* the heap's dict objects, by address (the records as objects)
    lists,        \* the heap's list objects, by address (the reminder lists)
    store_list,   \* BirthdayStore._birthdays as the list of its dicts' addresses
    held,         \* the dict a caller of the store got back and still holds
    actor,        \* who took the last step: the store, or the caller on its objects
    stamps,       \* for each record of _birthdays, the number of the add that put it there
    adds,         \* how many records have been added so far
    response,     \* what list_birthdays returned, with the date it was called on
    today,        \* date.today()
    birthday_date,  \* a record's stored date
    days_until,   \* _days_until_birthday(birthday_date, today)
    cal_next,     \* the calendar's _next_occurrence(birthday_date, today)
    cal_days,     \* the calendar's _days_until(birthday_date, today)
    age_turning,  \* _age_turning(birthday_date, today)
    summary,      \* the calendar's _build_summary for the record and cal_next
    reminders,    \* the reminder events the daily check fired when it ran last
    listeners,    \* the time listeners async_track_time_change has active
    unsub_time_listener,  \* hass.data[DOMAIN]["unsub_time_listener"]
    entry,        \* the config entry: its state and its options
    handles,      \* how many listeners have been installed so far
    firings,      \* how many times the check ran at the last change of time
    date_input,   \* a date string a caller passes
    stage,        \* how far the string has gone through the date helpers
    normalized,   \* _normalize_date(date_input) of __init__.py
    flow_normalized,  \* _normalize_date(date_input) of config_flow.py
    displayed,    \* _display_date of the normalized date
    renormalized, \* _normalize_date of the displayed date
    number,       \* an integer
    ordinal,      \* _ordinal(number) of __init__.py
    cal_ordinal,  \* _ordinal(number) of calendar.py
    submitted,    \* the user_input the settings step was given last
    errors,       \* the errors dict of that step, as the set of its error codes
    cal_event,    \* what the calendar's event property returned, and on which day
    tasks,        \* the store calls in progress: which call, and how far it has run
    calls,        \* how many calls of the store were made so far
    slot,         \* the time of day, as the index of a time of CLOCK_TIMES
    received,     \* for each record of _birthdays, the reminders fired for it today
    changed_at    \* the slot in which the schedule was last changed today

storeVars == <<_birthdays, persisted, call, ret>>

svcVars == <<default_reminder_days, hass_default_reminder_days, req>>

aliasVars == <<dicts, lists, store_list, held, actor>>

listVars == <<stamps, adds, response>>

dayVars == <<today, birthday_date, days_until, cal_next, cal_days, age_turning, summary>>

checkVars == <<reminders>>

schedVars == <<listeners, unsub_time_listener, entry, handles, firings>>

normVars == <<date_input, stage, normalized, flow_normalized, displayed, renormalized>>

ordVars == <<number, ordinal, cal_ordinal>>

clockVars == <<slot, received, changed_at>>

runVars == <<submitted, errors, cal_event, tasks, calls, clockVars>>

vars == <<storeVars, svcVars, aliasVars, listVars, dayVars, checkVars, schedVars,
          normVars, ordVars, runVars>>

\* ------------------------------------------------------------------ bounds

\* The store holds at most this many records in the store-level specification.
MaxRecords == 2

\* The calendar of the date specification starts on 1 January of this year ...
FirstYear == 2023

\* ... and runs for this many years.
NumYears == 2

\* The store holds at most this many records in the listing specification ...
MaxListed == 3

\* ... and at most this many records are ever added to it.
MaxAdds == 4

\* The store holds at most this many records in the daily-check specification.
MaxChecked == 2

\* At most this many time listeners are ever installed.
MaxHandles == 4

\* The integers from 0 to this one are given their ordinals.
MaxOrdinal == 125

\* How many calls of the store can be in progress at once, and how many calls
\* are made in all.
MaxTasks == 2

MaxCalls == 4

\* How many days the clock is followed for.
MaxDays == 2

\* ------------------------------------------------------------- const.py

DEFAULT_REMINDER_DAYS == <<7, 1, 0>>

\* --------------------------------------------------------------- helpers

None == <<>>

Some(v) == <<v>>

Min(S) == CHOOSE x \in S : \A y \in S : x <= y

\* seq without its i-th element: list.pop(i)
RemoveAt(seq, i) == [k \in 1..(Len(seq) - 1) |-> IF k < i THEN seq[k] ELSE seq[k + 1]]

\* The stored date string "YYYY-MM-DD".
Date(y, m, d) == [y |-> y, m |-> m, d |-> d]

\* ---------------------------------------------------------------- store.py

\* The document _async_save hands to the storage helper: {"birthdays": [...]}.
Document(bs) == [written |-> TRUE, birthdays |-> bs]

\* No document has been written yet (a fresh installation).
NoDocument == [written |-> FALSE, birthdays |-> <<>>]

\* What async_load reads into _birthdays.
LoadedBirthdays(doc) == IF doc.written THEN doc.birthdays ELSE <<>>

\* The first index whose record has this id (0 when none has): the for loops of
\* async_remove, async_edit and get_by_id stop at the first match.
FirstIndex(bs, birthday_id) ==
    LET hits == {i \in 1..Len(bs) : bs[i].id = birthday_id}
    IN  IF hits = {} THEN 0 ELSE Min(hits)

\* The in-memory part of async_add, for the id that uuid4().hex[:8] gave.
\* Returns the new list, whether the list is saved, and the returned value.
StoreAdd(bs, newid, name, date_str, reminder_days_before, notes) ==
    LET birthday == [id |-> newid,
                     name |-> name,
                     date |-> date_str,
                     reminder_days_before |->
                         IF reminder_days_before # None
                         THEN reminder_days_before[1]
                         ELSE DEFAULT_REMINDER_DAYS,
                     notes |-> notes]
    IN  [birthdays |-> Append(bs, birthday), saved |-> TRUE, value |-> Some(birthday)]

\* A removal that saves nothing (the mutant of StoreRemove).
StoreRemoveUnsaved(bs, birthday_id) ==
    LET i == FirstIndex(bs, birthday_id)
    IN  IF i = 0
        THEN [birthdays |-> bs, saved |-> FALSE, found |-> FALSE]
        ELSE [birthdays |-> RemoveAt(bs, i), saved |-> FALSE, found |-> TRUE]

\* A removal that drops every record with the id (the mutant of StoreRemove).
StoreRemoveAll(bs, birthday_id) ==
    LET i == FirstIndex(bs, birthday_id)
    IN  IF i = 0
        THEN [birthdays |-> bs, saved |-> FALSE, found |-> FALSE]
        ELSE [birthdays |-> SelectSeq(bs, LAMBDA b : b.id # birthday_id),
              saved |-> TRUE, found |-> TRUE]

\* async_remove.
StoreRemove(bs, birthday_id) ==
    LET i == FirstIndex(bs, birthday_id)
    IN  IF i = 0
        THEN [birthdays |-> bs, saved |-> FALSE, found |-> FALSE]
        ELSE [birthdays |-> RemoveAt(bs, i), saved |-> TRUE, found |-> TRUE]

\* kwargs merged into one record: only the keys present are overwritten.
Merged(b, kw) ==
    [id |-> b.id,
     name |-> IF kw.name # None THEN kw.name[1] ELSE b.name,
     date |-> IF kw.date # None THEN kw.date[1] ELSE b.date,
     reminder_days_before |->
         IF kw.reminder_days_before # None
         THEN kw.reminder_days_before[1]
         ELSE b.reminder_days_before,
     notes |-> IF kw.notes # None THEN kw.notes[1] ELSE b.notes]

\* An edit that writes notes even when the key is absent (the mutant of StoreEdit).
StoreEditNotesAlways(bs, birthday_id, kw) ==
    LET i == FirstIndex(bs, birthday_id)
    IN  IF i = 0
        THEN [birthdays |-> bs, saved |-> FALSE, value |-> None]
        ELSE LET nb == [Merged(bs[i], kw) EXCEPT
                           !.notes = IF kw.notes # None THEN kw.notes[1] ELSE ""]
             IN  [birthdays |-> [bs EXCEPT ![i] = nb], saved |-> TRUE, value |-> Some(nb)]

\* async_edit.
StoreEdit(bs, birthday_id, kw) ==
    LET i == FirstIndex(bs, birthday_id)
    IN  IF i = 0
        THEN [birthdays |-> bs, saved |-> FALSE, value |-> None]
        ELSE LET nb == Merged(bs[i], kw)
             IN  [birthdays |-> [bs EXCEPT ![i] = nb], saved |-> TRUE, value |-> Some(nb)]

\* get_by_id: a copy of the first record with the id, or None.
get_by_id(bs, birthday_id) ==
    LET i == FirstIndex(bs, birthday_id)
    IN  IF i = 0 THEN None ELSE Some(bs[i])

\* _async_save after an operation r on the store: the document is rewritten
\* exactly when the operation reached its save.
Saved(r) == IF r.saved THEN Document(r.birthdays) ELSE persisted

\* ------------------------------------------------- the store's operations

\* The call descriptor: the operation, the id it was given (remove, edit) and
\* the arguments of an add.
Call(op, id, args) == [op |-> op, id |-> id, args |-> args]

AddArgs(name, date_str, rdb, notes) ==
    [name |-> name, date |-> date_str, reminder_days_before |-> rdb, notes |-> notes]

NoCall == Call("none", "", None)

\* The returned value: found is the bool of async_remove (and "is not None" for
\* the others), value the returned record, or None.
Ret(found, value) == [found |-> found, value |-> value]

\* async_load (setup of the entry).
async_load ==
    /\ _birthdays' = LoadedBirthdays(persisted)
    /\ call' = Call("load", "", None)
    /\ ret' = Ret(TRUE, None)
    /\ UNCHANGED persisted

\* async_add with the id uuid4().hex[:8] produced.
async_add(newid, name, date_str, rdb, notes) ==
    LET r == StoreAdd(_birthdays, newid, name, date_str, rdb, notes)
    IN  /\ _birthdays' = r.birthdays
        /\ persisted' = Saved(r)
        /\ call' = Call("add", "", Some(AddArgs(name, date_str, rdb, notes)))
        /\ ret' = Ret(TRUE, r.value)

async_remove(birthday_id) ==
    LET r == StoreRemove(_birthdays, birthday_id)
    IN  /\ _birthdays' = r.birthdays
        /\ persisted' = Saved(r)
        /\ call' = Call("remove", birthday_id, None)
        /\ ret' = Ret(r.found, None)

async_edit(birthday_id, kw) ==
    LET r == StoreEdit(_birthdays, birthday_id, kw)
    IN  /\ _birthdays' = r.birthdays
        /\ persisted' = Saved(r)
        /\ call' = Call("edit", birthday_id, None)
        /\ ret' = Ret(r.value # None, r.value)

\* The request descriptor: which handler ran, how it ended ("ok", or the error),
\* and how many EVENT_BIRTHDAYS_UPDATED events it fired.
Request(handler, outcome, fired) ==
    [handler |-> handler, outcome |-> outcome, fired |-> fired]

NoRequest == Request("none", "none", 0)

\* What a caller holds: nothing, or the dict at address a, got from `via`.
Object(kind, a, via) == [kind |-> kind, a |-> a, via |-> via]

NoObject == Object("none", 0, "none")

\* ------------------------------------- the store-level specification (Spec)

\* The ids uuid4().hex[:8] can return: any 8 hex digits; two stand for them.
HEX8 == {"0a1b2c3d", "9f8e7d6c"}

Optional(S) == {None} \cup {Some(v) : v \in S}

Kwargs(nm, dt, rd, nt) ==
    [name |-> nm, date |-> dt, reminder_days_before |-> rd, notes |-> nt]

\* The keyword arguments an edit is called with: every subset of the four keys.
KWARGS ==
    {Kwargs(nm, dt, rd, nt) :
        nm \in Optional({"Bob"}), dt \in Optional({Date(1990, 6, 15)}),
        rd \in Optional({<<3>>}), nt \in Optional({"likes cake"})}

\* BirthdayStore.__init__: an empty list, and no document on disk yet.
StoreInit ==
    /\ _birthdays = <<>>
    /\ persisted = NoDocument
    /\ call = NoCall
    /\ ret = Ret(FALSE, None)

\* No request has been handled; both defaults as async_setup_entry leaves them
\* for the options the config flow creates the entry with ("7,1,0").
SvcInit ==
    /\ default_reminder_days = DEFAULT_REMINDER_DAYS
    /\ hass_default_reminder_days = DEFAULT_REMINDER_DAYS
    /\ req = NoRequest

\* An empty heap; the caller holds nothing.
AliasInit ==
    /\ dicts = <<>>
    /\ lists = <<>>
    /\ store_list = <<>>
    /\ held = NoObject
    /\ actor = "none"

\* What list_birthdays returned when it was the last call: {"birthdays": result},
\* with the date.today() of the call.
Response(called, td, result) == [called |-> called, today |-> td, birthdays |-> result]

NoResponse == Response(FALSE, Date(FirstYear, 1, 1), <<>>)

\* Nothing has been added or listed.
ListInit ==
    /\ stamps = <<>>
    /\ adds = 0
    /\ response = NoResponse

\* New Year's Day, and a birthday on it.
DayInit ==
    /\ today = Date(FirstYear, 1, 1)
    /\ birthday_date = Date(0, 1, 1)
    /\ days_until = 0
    /\ cal_next = Date(FirstYear, 1, 1)
    /\ cal_days = 0
    /\ age_turning = None
    /\ summary = [name |-> "Ann", ordinal |-> None]

\* What _async_check_birthdays fired when it was the last thing to run, with
\* the date of the run.
Reminders(ran, td, events) == [ran |-> ran, today |-> td, events |-> events]

NoReminders == Reminders(FALSE, Date(FirstYear, 1, 1), <<>>)

CheckInit == reminders = NoReminders

\* The config entry: state is "not_loaded", "loaded", "setup_error" or
\* "failed_unload"; the two options are the strings split at ":" and at ",".
Entry(state, notification_time, default_reminder_days_str) ==
    [state |-> state, notification_time |-> notification_time,
     default_reminder_days |-> default_reminder_days_str]

\* Before setup: the entry as async_step_user created it ("12:00" and "7,1,0"),
\* no listener.
SchedInit ==
    /\ listeners = {}
    /\ unsub_time_listener = None
    /\ entry = Entry("not_loaded",
                     <<[k |-> "int", n |-> 12], [k |-> "int", n |-> 0]>>,
                     <<[k |-> "int", n |-> 7], [k |-> "int", n |-> 1],
                       [k |-> "int", n |-> 0]>>)
    /\ handles = 0
    /\ firings = 0

\* A result that has not been computed.
NotYet == [ok |-> FALSE, err |-> "not_yet", v |-> None]

\* The string "1-1", not yet normalized.
NormInit ==
    /\ date_input = <<[k |-> "int", n |-> 1], [k |-> "int", n |-> 1]>>
    /\ stage = "input"
    /\ normalized = NotYet
    /\ flow_normalized = NotYet
    /\ displayed = <<>>
    /\ renormalized = NotYet

OrdInit ==
    /\ number = 0
    /\ ordinal = [n |-> 0, suffix |-> "th"]
    /\ cal_ordinal = [n |-> 0, suffix |-> "th"]

\* No settings were submitted yet, the calendar was not read yet, no call of
\* the store is in progress, the day begins.
RunInit ==
    /\ submitted = <<>>
    /\ errors = {}
    /\ cal_event = [called |-> FALSE, today |-> [y |-> 1, m |-> 1, d |-> 1], event |-> <<>>]
    /\ tasks = [t \in 1..MaxTasks |-> [op |-> "none", pc |-> "idle", id |-> ""]]
    /\ calls = 0
    /\ slot = 1
    /\ received = <<>>
    /\ changed_at = <<>>

Init ==
    /\ StoreInit /\ SvcInit /\ AliasInit /\ ListInit /\ DayInit
    /\ CheckInit /\ SchedInit /\ NormInit /\ OrdInit /\ RunInit

Load == async_load /\ UNCHANGED <<svcVars, aliasVars, listVars, dayVars, checkVars, schedVars,
                 normVars, ordVars, runVars>>

Add ==
    /\ Len(_birthdays) < MaxRecords
    /\ \E newid \in HEX8, name \in {"Ann", "Bob"}, rdb \in Optional({<<3>>}) :
          async_add(newid, name, Date(0, 2, 29), rdb, "")
    /\ UNCHANGED <<svcVars, aliasVars, listVars, dayVars, checkVars, schedVars,
                 normVars, ordVars, runVars>>

Remove ==
    /\ \E birthday_id \in HEX8 : async_remove(birthday_id)
    /\ UNCHANGED <<svcVars, aliasVars, listVars, dayVars, checkVars, schedVars,
                 normVars, ordVars, runVars>>

Edit ==
    /\ \E birthday_id \in HEX8, kw \in KWARGS : async_edit(birthday_id, kw)
    /\ UNCHANGED <<svcVars, aliasVars, listVars, dayVars, checkVars, schedVars,
                 normVars, ordVars, runVars>>

Next == Load \/ Add \/ Remove \/ Edit

Spec == Init /\ [][Next]_vars

\* ------------------------------------------------------- datetime.date

IsLeap(y) == (y % 4 = 0 /\ y % 100 # 0) \/ y % 400 = 0

DaysInMonth(y, m) ==
    IF m = 2 THEN (IF IsLeap(y) THEN 29 ELSE 28)
    ELSE IF m \in {4, 6, 9, 11} THEN 30 ELSE 31

\* date(y, m, d) constructs a date (it raises ValueError otherwise).
DateOK(y, m, d) ==
    /\ y \in 1..9999
    /\ m \in 1..12
    /\ d \in 1..DaysInMonth(y, m)

\* date.__lt__: dates compare as (year, month, day).
DateLess(a, b) ==
    \/ a.y < b.y
    \/ a.y = b.y /\ a.m < b.m
    \/ a.y = b.y /\ a.m = b.m /\ a.d < b.d

\* The days before 1 January of year y, counted from 0001-01-01.
DaysBeforeYear(y) ==
    (y - 1) * 365 + ((y - 1) \div 4) - ((y - 1) \div 100) + ((y - 1) \div 400)

\* The days of year y before the first of month m.
RECURSIVE DaysBeforeMonth(_, _)
DaysBeforeMonth(y, m) ==
    IF m = 1 THEN 0 ELSE DaysBeforeMonth(y, m - 1) + DaysInMonth(y, m - 1)

\* date.toordinal()
toordinal(dt) == DaysBeforeYear(dt.y) + DaysBeforeMonth(dt.y, dt.m) + dt.d

\* (a - b).days
DaysBetween(a, b) == toordinal(a) - toordinal(b)

\* The day after dt: the clock of the host moving on.
NextDay(dt) ==
    IF dt.d < DaysInMonth(dt.y, dt.m) THEN Date(dt.y, dt.m, dt.d + 1)
    ELSE IF dt.m < 12 THEN Date(dt.y, dt.m + 1, 1)
    ELSE Date(dt.y + 1, 1, 1)

\* ------------------------------------------- days until the next birthday

\* try: date(year, month, day)  except ValueError: date(year, month, 28)
\* (for a stored month and day and a year through 9998 the fallback is a date).
OccurrenceIn(year, month, day) ==
    IF DateOK(year, month, day) THEN Date(year, month, day) ELSE Date(year, month, 28)

\* As _days_until_birthday, but with "this_year <= today".
days_until_birthday_inclusive(birthday_date_str, td) ==
    LET month == birthday_date_str.m
        day == birthday_date_str.d
        this_year == OccurrenceIn(td.y, month, day)
    IN  IF DateLess(this_year, td) \/ this_year = td
        THEN DaysBetween(OccurrenceIn(td.y + 1, month, day), td)
        ELSE DaysBetween(this_year, td)

\* As _days_until_birthday, but falling back to 1 March.
days_until_birthday_march(birthday_date_str, td) ==
    LET month == birthday_date_str.m
        day == birthday_date_str.d
        this_year == IF DateOK(td.y, month, day) THEN Date(td.y, month, day)
                     ELSE Date(td.y, 3, 1)
    IN  IF DateLess(this_year, td)
        THEN DaysBetween(IF DateOK(td.y + 1, month, day) THEN Date(td.y + 1, month, day)
                         ELSE Date(td.y + 1, 3, 1), td)
        ELSE DaysBetween(this_year, td)

\* __init__.py, _days_until_birthday
_days_until_birthday(birthday_date_str, td) ==
    LET month == birthday_date_str.m
        day == birthday_date_str.d
        this_year == OccurrenceIn(td.y, month, day)
    IN  IF DateLess(this_year, td)
        THEN LET next_year == OccurrenceIn(td.y + 1, month, day)
             IN  DaysBetween(next_year, td)
        ELSE DaysBetween(this_year, td)

\* As _next_occurrence, but never moving on to next year.
next_occurrence_this_year(birthday_date_str, td) ==
    OccurrenceIn(td.y, birthday_date_str.m, birthday_date_str.d)

\* calendar.py, BirthdayCalendar._next_occurrence
_next_occurrence(birthday_date_str, td) ==
    LET month == birthday_date_str.m
        day == birthday_date_str.d
        this_year == OccurrenceIn(td.y, month, day)
    IN  IF DateLess(this_year, td)
        THEN OccurrenceIn(td.y + 1, month, day)
        ELSE this_year

\* calendar.py, BirthdayCalendar._days_until
_days_until(birthday_date_str, td) ==
    LET month == birthday_date_str.m
        day == birthday_date_str.d
        this_year == OccurrenceIn(td.y, month, day)
    IN  IF DateLess(this_year, td)
        THEN LET next_year == OccurrenceIn(td.y + 1, month, day)
             IN  DaysBetween(next_year, td)
        ELSE DaysBetween(this_year, td)

\* As _age_turning, but with "this_year_bday <= today".
age_turning_inclusive(birthday_date_str, td) ==
    LET year == birthday_date_str.y
        this_year_bday == OccurrenceIn(td.y, birthday_date_str.m, birthday_date_str.d)
    IN  IF year = 0 THEN None
        ELSE IF DateLess(this_year_bday, td) \/ this_year_bday = td
        THEN Some(td.y + 1 - year)
        ELSE Some(td.y - year)

\* As _age_turning, but counting calendar years only.
age_turning_calendar_year(birthday_date_str, td) ==
    IF birthday_date_str.y = 0 THEN None ELSE Some(td.y - birthday_date_str.y)

\* __init__.py, _age_turning: None when the birth year is not known.
_age_turning(birthday_date_str, td) ==
    LET year == birthday_date_str.y
        this_year_bday == OccurrenceIn(td.y, birthday_date_str.m, birthday_date_str.d)
    IN  IF year = 0 THEN None
        ELSE IF DateLess(this_year_bday, td) THEN Some(td.y + 1 - year)
        ELSE Some(td.y - year)

\* An ordinal that gives "th" to 11, 12 and 13 only.
ordinal_teens_only(n) ==
    [n |-> n,
     suffix |-> IF n \in 11..13 THEN "th"
                ELSE IF n % 10 = 1 THEN "st"
                ELSE IF n % 10 = 2 THEN "nd"
                ELSE IF n % 10 = 3 THEN "rd" ELSE "th"]

\* calendar.py, _ordinal
calendar_ordinal(n) ==
    [n |-> n,
     suffix |-> IF (n % 100) \in 11..13 THEN "th"
                ELSE IF n % 10 = 1 THEN "st"
                ELSE IF n % 10 = 2 THEN "nd"
                ELSE IF n % 10 = 3 THEN "rd" ELSE "th"]

\* __init__.py, _ordinal: the number and its suffix.
_ordinal(n) ==
    [n |-> n,
     suffix |-> IF (n % 100) \in 11..13 THEN "th"
                ELSE IF n % 10 = 1 THEN "st"
                ELSE IF n % 10 = 2 THEN "nd"
                ELSE IF n % 10 = 3 THEN "rd" ELSE "th"]

\* A display in the order year, month, day.
display_date_iso(stored_date) == <<stored_date.y, stored_date.m, stored_date.d>>

\* __init__.py, _display_date: "DD-MM" or "DD-MM-YYYY", as its fields in order.
_display_date(stored_date) ==
    IF stored_date.y = 0 THEN <<stored_date.d, stored_date.m>>
    ELSE <<stored_date.d, stored_date.m, stored_date.y>>

\* calendar.py, BirthdayCalendar._build_summary: whose birthday (the possessive
\* of the name), and the ordinal of the age when the birth year is known and
\* the age is positive.
_build_summary(birthday, event_date) ==
    LET birth_year == birthday.date.y
        a == event_date.y - birth_year
    IN  [name |-> birthday.name,
         ordinal |-> IF birth_year # 0 /\ a > 0 THEN Some(_ordinal(a)) ELSE None]

\* --------------------------------------------------- the calendar (SpecDays)

\* The dates the store can hold without a birth year: every month and day
\* that date(2000, month, day) accepts.
STORED_DATES == {dt \in [y : {0}, m : 1..12, d : 1..31] : DateOK(2000, dt.m, dt.d)}

\* Stored dates with a birth year: in a common year, in a leap year (with its
\* 29 February and the days around it, and the ends of the year), and in the
\* years the calendar runs through.
KNOWN_YEAR_DATES ==
    {Date(1990, 6, 15), Date(2000, 1, 1), Date(2000, 2, 28), Date(2000, 2, 29),
     Date(2000, 3, 1), Date(2000, 12, 31), Date(2023, 6, 15), Date(2024, 2, 29)}

\* What the helpers return for date bd on day td.
Computed(bd, td) ==
    /\ today' = td
    /\ birthday_date' = bd
    /\ days_until' = _days_until_birthday(bd, td)
    /\ cal_next' = _next_occurrence(bd, td)
    /\ cal_days' = _days_until(bd, td)
    /\ age_turning' = _age_turning(bd, td)
    /\ summary' = _build_summary([name |-> "Ann", date |-> bd], _next_occurrence(bd, td))

\* Any stored date, on the first day of the calendar.
DaysInit ==
    /\ StoreInit /\ SvcInit /\ AliasInit /\ ListInit
    /\ CheckInit /\ SchedInit /\ NormInit /\ OrdInit /\ RunInit
    /\ today = Date(FirstYear, 1, 1)
    /\ birthday_date \in STORED_DATES \cup KNOWN_YEAR_DATES
    /\ days_until = _days_until_birthday(birthday_date, today)
    /\ cal_next = _next_occurrence(birthday_date, today)
    /\ cal_days = _days_until(birthday_date, today)
    /\ age_turning = _age_turning(birthday_date, today)
    /\ summary = _build_summary([name |-> "Ann", date |-> birthday_date],
                                _next_occurrence(birthday_date, today))

\* A day passes and the helpers are asked again.
DayPasses ==
    /\ NextDay(today).y < FirstYear + NumYears
    /\ Computed(birthday_date, NextDay(today))
    /\ UNCHANGED <<storeVars, svcVars, aliasVars, listVars, checkVars, schedVars,
                   normVars, ordVars, runVars>>

DaysNext == DayPasses

SpecDays == DaysInit /\ [][DaysNext]_vars

\* ------------------------------------------------ list_birthdays (SpecList)

\* One element of the result of handle_list_birthdays.
Listed(b, td) ==
    LET age == _age_turning(b.date, td)
    IN  [id |-> b.id,
         name |-> b.name,
         date |-> _display_date(b.date),
         days_until |-> _days_until_birthday(b.date, td),
         age_turning |-> age,
         age_turning_ordinal |->
             IF age # None /\ age[1] # 0 THEN Some(_ordinal(age[1])) ELSE None,
         reminder_days_before |-> b.reminder_days_before,
         notes |-> b.notes]

\* x put into a list sorted by days_until, before the elements of equal key
\* (what a sort that is not stable may do).
InsertBeforeTies(sorted, x) ==
    LET k == Cardinality({i \in 1..Len(sorted) : sorted[i].days_until < x.days_until})
    IN  SubSeq(sorted, 1, k) \o <<x>> \o SubSeq(sorted, k + 1, Len(sorted))

\* x put into a list sorted by days_until, after the elements of equal key:
\* list.sort is stable, elements of equal key keep their order.
InsertByKey(sorted, x) ==
    LET k == Cardinality({i \in 1..Len(sorted) : sorted[i].days_until <= x.days_until})
    IN  SubSeq(sorted, 1, k) \o <<x>> \o SubSeq(sorted, k + 1, Len(sorted))

\* result.sort(key=lambda x: x["days_until"])
RECURSIVE sort_by_days_until(_)
sort_by_days_until(result) ==
    IF result = <<>> THEN <<>>
    ELSE InsertByKey(sort_by_days_until(SubSeq(result, 1, Len(result) - 1)),
                     result[Len(result)])

\* handle_list_birthdays on the day td.
handle_list_birthdays(td) ==
    LET result == [i \in 1..Len(_birthdays) |-> Listed(_birthdays[i], td)]
    IN  /\ response' = Response(TRUE, td, sort_by_days_until(result))
        /\ UNCHANGED <<storeVars, stamps, adds>>

\* The stored dates and the days of the listing specification: on the first
\* day two of the dates fall on the same day, on the others none do.
LIST_DATES == {Date(0, 2, 28), Date(0, 2, 29), Date(1990, 12, 25)}

LIST_TODAYS == {Date(2023, 2, 28), Date(2024, 2, 28), Date(2023, 12, 26)}

ListAdd ==
    /\ Len(_birthdays) < MaxListed
    /\ adds < MaxAdds
    /\ \E newid \in HEX8, date_str \in LIST_DATES :
           async_add(newid, "Ann", date_str, None, "")
    /\ stamps' = Append(stamps, adds + 1)
    /\ adds' = adds + 1
    /\ response' = NoResponse
    /\ UNCHANGED <<svcVars, aliasVars, dayVars, checkVars, schedVars,
                 normVars, ordVars, runVars>>

ListRemove ==
    /\ \E birthday_id \in HEX8 :
           /\ async_remove(birthday_id)
           /\ stamps' = IF FirstIndex(_birthdays, birthday_id) = 0 THEN stamps
                        ELSE RemoveAt(stamps, FirstIndex(_birthdays, birthday_id))
    /\ response' = NoResponse
    /\ UNCHANGED <<adds, svcVars, aliasVars, dayVars, checkVars, schedVars,
                 normVars, ordVars, runVars>>

ListEdit ==
    /\ \E birthday_id \in HEX8, date_str \in LIST_DATES :
           async_edit(birthday_id, Kwargs(None, Some(date_str), None, None))
    /\ response' = NoResponse
    /\ UNCHANGED <<stamps, adds, svcVars, aliasVars, dayVars, checkVars, schedVars,
                 normVars, ordVars, runVars>>

List ==
    /\ \E td \in LIST_TODAYS : handle_list_birthdays(td)
    /\ UNCHANGED <<svcVars, aliasVars, dayVars, checkVars, schedVars,
                 normVars, ordVars, runVars>>

ListNext == ListAdd \/ ListRemove \/ ListEdit \/ List

SpecList == Init /\ [][ListNext]_vars

\* ------------------------------------------------------ input strings

\* A string the caller passes is modelled by what split() makes of it: the
\* sequence of its segments.  A segment is an integer literal (int() reads n),
\* other text (int() raises ValueError), or blank (empty or spaces).  The empty
\* string, the only falsy one, is the empty sequence.
Num(n) == [k |-> "int", n |-> n]

Text == [k |-> "text", n |-> 0]

Blank == [k |-> "blank", n |-> 0]

\* int(x) succeeds.
IsInt(x) == x.k = "int"

\* What a handler's parsing step produced: a value, or the exception raised.
Parsed(v) == [ok |-> TRUE, err |-> "", v |-> Some(v)]

Raised(e) == [ok |-> FALSE, err |-> e, v |-> None]

\* seq with x inserted before the first element smaller than x.
RECURSIVE InsertDesc(_, _)
InsertDesc(seq, x) ==
    IF seq = <<>> THEN <<x>>
    ELSE IF x > Head(seq) THEN <<x>> \o seq
    ELSE <<Head(seq)>> \o InsertDesc(Tail(seq), x)

\* sorted(seq, reverse=True) of a list of integers.
RECURSIVE SortedDesc(_)
SortedDesc(seq) ==
    IF seq = <<>> THEN <<>>
    ELSE InsertDesc(SortedDesc(Tail(seq)), Head(seq))

\* _parse_reminder_days (the same function in __init__.py and config_flow.py):
\* blank segments are skipped, int() of any other raises ValueError on text.
parse_reminder_days(value) ==
    LET kept == SelectSeq(value, LAMBDA x : x.k # "blank")
    IN  IF \E i \in 1..Len(kept) : ~IsInt(kept[i])
        THEN Raised("ValueError")
        ELSE Parsed(SortedDesc([i \in 1..Len(kept) |-> kept[i].n]))

\* A validation of day and month against the leap year 2000 whatever the year.
ValidatedLeap(year, month, day) ==
    IF DateOK(2000, month, day)
    THEN Parsed(Date(year, month, day))
    ELSE Raised("ValueError")

\* The two branches shared by both _normalize_date functions once the segments
\* are named: validate against the year, or against 2000 when the year is 0.
Validated(year, month, day) ==
    IF DateOK(IF year # 0 THEN year ELSE 2000, month, day)
    THEN Parsed(Date(year, month, day))
    ELSE Raised("ValueError")

\* _normalize_date of __init__.py: "DD-MM" or "DD-MM-YYYY".
normalize_date(parts) ==
    IF Len(parts) = 2
    THEN IF ~IsInt(parts[1]) \/ ~IsInt(parts[2])
         THEN Raised("ValueError")
         ELSE Validated(0, parts[2].n, parts[1].n)
    ELSE IF Len(parts) = 3
    THEN IF ~IsInt(parts[1]) \/ ~IsInt(parts[2]) \/ ~IsInt(parts[3])
         THEN Raised("ValueError")
         ELSE Validated(parts[3].n, parts[2].n, parts[1].n)
    ELSE Raised("Invalid")

\* _normalize_date of config_flow.py: "MM-DD" or "YYYY-MM-DD".
flow_normalize_date(parts) ==
    IF Len(parts) = 2
    THEN IF ~IsInt(parts[1]) \/ ~IsInt(parts[2])
         THEN Raised("ValueError")
         ELSE Validated(0, parts[1].n, parts[2].n)
    ELSE IF Len(parts) = 3
    THEN IF ~IsInt(parts[1]) \/ ~IsInt(parts[2]) \/ ~IsInt(parts[3])
         THEN Raised("ValueError")
         ELSE Validated(parts[1].n, parts[2].n, parts[3].n)
    ELSE Raised("Invalid")

\* ------------------------------------------- the services (__init__.py)

\* The store's part of a handler: the list, the document and the returned
\* value after operation r (a result of StoreAdd, StoreRemove or StoreEdit).
Applied(r) ==
    /\ _birthdays' = r.birthdays
    /\ persisted' = Saved(r)

\* A handler that ended without reaching the store.
Failed(handler, outcome) ==
    /\ req' = Request(handler, outcome, 0)
    /\ UNCHANGED <<_birthdays, persisted>>

\* handle_add_birthday: data is call.data, newid what uuid4().hex[:8] gives.
handle_add_birthday(data, newid) ==
    LET date_str == normalize_date(data.date)
        reminder_days ==
            IF data.reminder_days_before # None /\ data.reminder_days_before[1] # <<>>
            THEN parse_reminder_days(data.reminder_days_before[1])
            ELSE Parsed(default_reminder_days)
    IN  IF ~date_str.ok THEN Failed("add_birthday", date_str.err)
        ELSE IF ~reminder_days.ok THEN Failed("add_birthday", reminder_days.err)
        ELSE /\ Applied(StoreAdd(_birthdays, newid, data.name, date_str.v[1],
                                 reminder_days.v, data.notes))
             /\ req' = Request("add_birthday", "ok", 1)

\* A remove that fires the event before it looks at what the store returned
\* (the mutant of handle_remove_birthday).
handle_remove_birthday_fires_first(birthday_id) ==
    LET r == StoreRemove(_birthdays, birthday_id)
    IN  /\ Applied(r)
        /\ req' = IF r.found THEN Request("remove_birthday", "ok", 1)
                  ELSE Request("remove_birthday", "not_found", 1)

\* handle_remove_birthday.
handle_remove_birthday(birthday_id) ==
    LET r == StoreRemove(_birthdays, birthday_id)
    IN  /\ Applied(r)
        /\ req' = IF r.found THEN Request("remove_birthday", "ok", 1)
                  ELSE Request("remove_birthday", "not_found", 0)

\* An edit that stores the name it was given before it validates the date and
\* the reminder days (the mutant of handle_edit_birthday).
handle_edit_birthday_eager(birthday_id, data) ==
    LET date_str == IF data.date # None THEN normalize_date(data.date[1])
                    ELSE Parsed(Date(0, 0, 0))
        reminder_days ==
            IF data.reminder_days_before # None
            THEN parse_reminder_days(data.reminder_days_before[1])
            ELSE Parsed(<<>>)
        kw == Kwargs(data.name,
                     IF data.date # None THEN date_str.v ELSE None,
                     IF data.reminder_days_before # None THEN reminder_days.v ELSE None,
                     data.notes)
    IN  IF ~date_str.ok \/ ~reminder_days.ok
        THEN /\ Applied(StoreEdit(_birthdays, birthday_id,
                                  Kwargs(data.name, None, None, None)))
             /\ req' = Request("edit_birthday",
                               IF ~date_str.ok THEN date_str.err ELSE reminder_days.err,
                               0)
        ELSE LET r == StoreEdit(_birthdays, birthday_id, kw)
             IN  /\ Applied(r)
                 /\ req' = IF r.value # None THEN Request("edit_birthday", "ok", 1)
                           ELSE Request("edit_birthday", "not_found", 0)

\* An edit that takes the store's None for a success: it raises nothing and
\* fires the event (the mutant of handle_edit_birthday for unknown ids).
handle_edit_birthday_lenient(birthday_id, data) ==
    LET date_str == IF data.date # None THEN normalize_date(data.date[1])
                    ELSE Parsed(Date(0, 0, 0))
        reminder_days ==
            IF data.reminder_days_before # None
            THEN parse_reminder_days(data.reminder_days_before[1])
            ELSE Parsed(<<>>)
        kw == Kwargs(data.name,
                     IF data.date # None THEN date_str.v ELSE None,
                     IF data.reminder_days_before # None THEN reminder_days.v ELSE None,
                     data.notes)
    IN  IF ~date_str.ok THEN Failed("edit_birthday", date_str.err)
        ELSE IF ~reminder_days.ok THEN Failed("edit_birthday", reminder_days.err)
        ELSE /\ Applied(StoreEdit(_birthdays, birthday_id, kw))
             /\ req' = Request("edit_birthday", "ok", 1)

\* handle_edit_birthday: a key of data is None when call.data does not have it.
handle_edit_birthday(birthday_id, data) ==
    LET date_str == IF data.date # None THEN normalize_date(data.date[1])
                    ELSE Parsed(Date(0, 0, 0))
        reminder_days ==
            IF data.reminder_days_before # None
            THEN parse_reminder_days(data.reminder_days_before[1])
            ELSE Parsed(<<>>)
        kw == Kwargs(data.name,
                     IF data.date # None THEN date_str.v ELSE None,
                     IF data.reminder_days_before # None THEN reminder_days.v ELSE None,
                     data.notes)
    IN  IF ~date_str.ok THEN Failed("edit_birthday", date_str.err)
        ELSE IF ~reminder_days.ok THEN Failed("edit_birthday", reminder_days.err)
        ELSE LET r == StoreEdit(_birthdays, birthday_id, kw)
             IN  /\ Applied(r)
                 /\ req' = IF r.value # None THEN Request("edit_birthday", "ok", 1)
                           ELSE Request("edit_birthday", "not_found", 0)

\* ------------------------------------ the options flow (config_flow.py)

\* async_step_add_birthday with a user_input (name and date are required by the
\* form's schema, reminder_days_before and notes have defaults).
async_step_add_birthday(user_input, newid) ==
    LET date_str == flow_normalize_date(user_input.date)
        reminder_days ==
            IF user_input.reminder_days_before # <<>>
            THEN parse_reminder_days(user_input.reminder_days_before)
            ELSE Parsed(hass_default_reminder_days)
    IN  IF ~date_str.ok THEN Failed("flow_add", "invalid_date")
        ELSE IF ~reminder_days.ok THEN Failed("flow_add", reminder_days.err)
        ELSE /\ Applied(StoreAdd(_birthdays, newid, user_input.name, date_str.v[1],
                                 reminder_days.v, user_input.notes))
             /\ req' = Request("flow_add", "ok", 1)

\* async_step_edit_birthday with a user_input, for the id selected before.
\* Empty strings are skipped (name, date, reminder days); notes is always
\* taken; both parse errors are collected before the store is touched.
async_step_edit_birthday(selected, user_input) ==
    LET date_str == IF user_input.date # <<>>
                    THEN flow_normalize_date(user_input.date)
                    ELSE Parsed(Date(0, 0, 0))
        reminder_days ==
            IF user_input.reminder_days_before # <<>>
            THEN parse_reminder_days(user_input.reminder_days_before)
            ELSE Parsed(<<>>)
        kw == Kwargs(IF user_input.name # "" THEN Some(user_input.name) ELSE None,
                     IF user_input.date # <<>> THEN date_str.v ELSE None,
                     IF user_input.reminder_days_before # <<>>
                     THEN reminder_days.v ELSE None,
                     Some(user_input.notes))
    IN  IF get_by_id(_birthdays, selected) = None
        THEN Failed("flow_edit", "birthday_not_found")
        ELSE IF ~date_str.ok THEN Failed("flow_edit", "invalid_date")
        ELSE IF ~reminder_days.ok THEN Failed("flow_edit", "invalid_days")
        ELSE /\ Applied(StoreEdit(_birthdays, selected, kw))
             /\ req' = Request("flow_edit", "ok", 1)

\* async_step_remove_birthday, confirmed, for the id selected before.
async_step_remove_birthday(selected) ==
    IF get_by_id(_birthdays, selected) = None
    THEN Failed("flow_remove", "birthday_not_found")
    ELSE /\ Applied(StoreRemove(_birthdays, selected))
         /\ req' = Request("flow_remove", "ok", 1)

\* --------------------------- the request-level specification (SpecSvc)

\* The store holds at most this many records in the request-level specification.
MaxSvcRecords == 1

\* Date strings a caller sends: "01-02" (a date in either reading), "31-04"
\* (no such day), "15-06-1990", "7" (one segment) and "x-03" (not a number).
DATE_INPUTS ==
    {<<Num(1), Num(2)>>, <<Num(31), Num(4)>>, <<Num(15), Num(6), Num(1990)>>,
     <<Num(7)>>, <<Text, Num(3)>>}

\* Reminder strings: "", "3", "x" and "1,-2,1".
REMINDER_INPUTS == {<<>>, <<Num(3)>>, <<Text>>, <<Num(1), Num(-2), Num(1)>>}

\* The date and reminder strings an edit is tried with.
EDIT_DATE_INPUTS == {<<Num(1), Num(2)>>, <<Num(31), Num(4)>>}

EDIT_REMINDER_INPUTS == {<<Num(3)>>, <<Text>>}

AddData(name, date, rdb, notes) ==
    [name |-> name, date |-> date, reminder_days_before |-> rdb, notes |-> notes]

SvcAdd ==
    /\ Len(_birthdays) < MaxSvcRecords
    /\ \E newid \in HEX8, date \in DATE_INPUTS, rdb \in Optional(REMINDER_INPUTS) :
          handle_add_birthday(AddData("Ann", date, rdb, ""), newid)
    /\ UNCHANGED <<call, ret, default_reminder_days, hass_default_reminder_days, aliasVars,
                   listVars, dayVars, checkVars, schedVars,
                 normVars, ordVars, runVars>>

SvcRemove ==
    /\ \E birthday_id \in HEX8 : handle_remove_birthday(birthday_id)
    /\ UNCHANGED <<call, ret, default_reminder_days, hass_default_reminder_days, aliasVars,
                   listVars, dayVars, checkVars, schedVars,
                 normVars, ordVars, runVars>>

SvcEdit ==
    /\ \E birthday_id \in HEX8, nm \in Optional({"Bob"}),
          dt \in Optional(EDIT_DATE_INPUTS), rd \in Optional(EDIT_REMINDER_INPUTS),
          nt \in Optional({"likes cake"}) :
          handle_edit_birthday(birthday_id, AddData(nm, dt, rd, nt))
    /\ UNCHANGED <<call, ret, default_reminder_days, hass_default_reminder_days, aliasVars,
                   listVars, dayVars, checkVars, schedVars,
                 normVars, ordVars, runVars>>

FlowAdd ==
    /\ Len(_birthdays) < MaxSvcRecords
    /\ \E newid \in HEX8, date \in DATE_INPUTS, rdb \in REMINDER_INPUTS :
          async_step_add_birthday(AddData("Ann", date, rdb, ""), newid)
    /\ UNCHANGED <<call, ret, default_reminder_days, hass_default_reminder_days, aliasVars,
                   listVars, dayVars, checkVars, schedVars,
                 normVars, ordVars, runVars>>

FlowEdit ==
    /\ \E selected \in HEX8, nm \in {"", "Bob"},
          dt \in {<<>>} \cup EDIT_DATE_INPUTS, rd \in {<<>>} \cup EDIT_REMINDER_INPUTS,
          nt \in {"", "likes cake"} :
          async_step_edit_birthday(selected, AddData(nm, dt, rd, nt))
    /\ UNCHANGED <<call, ret, default_reminder_days, hass_default_reminder_days, aliasVars,
                   listVars, dayVars, checkVars, schedVars,
                 normVars, ordVars, runVars>>

FlowRemove ==
    /\ \E selected \in HEX8 : async_step_remove_birthday(selected)
    /\ UNCHANGED <<call, ret, default_reminder_days, hass_default_reminder_days, aliasVars,
                   listVars, dayVars, checkVars, schedVars,
                 normVars, ordVars, runVars>>

SvcNext == SvcAdd \/ SvcRemove \/ SvcEdit \/ FlowAdd \/ FlowEdit \/ FlowRemove

SpecSvc == Init /\ [][SvcNext]_vars

\* ------------------------- the store's records as objects (SpecAlias)
\* Python hands out references: a dict or a list is an object on the heap,
\* and two names for one object see each other's changes.  Here a record is
\* the dict at an address, its reminder_days_before the address of a list.

\* The store holds at most this many records in the object-level specification.
MaxAliasRecords == 1

\* Room for the store's dicts and the one dict in the caller's hands.
DictAddrs == 1..(MaxAliasRecords + 1)

ListAddrs == 1..(MaxAliasRecords + 1)

Restrict(f, S) == [x \in (S \cap DOMAIN f) |-> f[x]]

Elements(seq) == {seq[i] : i \in 1..Len(seq)}

\* What the reference counts keep alive: the dicts the store's list and the
\* caller's variable name, and the lists those dicts name.
LiveDicts(ds, sl, h) ==
    Restrict(ds, Elements(sl) \cup (IF h.kind = "dict" THEN {h.a} ELSE {}))

LiveLists(ls, live) == Restrict(ls, {live[a].rdb : a \in DOMAIN live})

\* The heap and the names after a step that leaves ds, ls, sl and h.
Heap(ds, ls, sl, h, who) ==
    LET live == LiveDicts(ds, sl, h)
    IN  /\ dicts' = live
        /\ lists' = LiveLists(ls, live)
        /\ store_list' = sl
        /\ held' = h
        /\ actor' = who

\* An address for a new dict (a new list), once the caller's variable is
\* assigned anew and what only it named is freed.
NewDict == Min(DictAddrs \ Elements(store_list))

NewList == Min(ListAddrs \ {dicts[a].rdb : a \in Elements(store_list)})

\* The first index of the store's list whose dict has this id (0 when none has).
FirstObject(birthday_id) ==
    LET hits == {i \in 1..Len(store_list) : dicts[store_list[i]].id = birthday_id}
    IN  IF hits = {} THEN 0 ELSE Min(hits)

\* async_add: the new dict is appended and the same dict is returned.
object_add(newid, name, reminder_days_before) ==
    LET d == NewDict
        l == NewList
        birthday == [id |-> newid, name |-> name, date |-> Date(0, 2, 29),
                     rdb |-> l, notes |-> ""]
        ls == Restrict(lists, {dicts[a].rdb : a \in Elements(store_list)})
                 @@ (l :> IF reminder_days_before # None
                          THEN reminder_days_before[1]
                          ELSE DEFAULT_REMINDER_DAYS)
        ds == Restrict(dicts, Elements(store_list)) @@ (d :> birthday)
    IN  Heap(ds, ls, Append(store_list, d), Object("dict", d, "add"), "store")

\* async_remove.
object_remove(birthday_id) ==
    LET i == FirstObject(birthday_id)
    IN  Heap(dicts, lists, IF i = 0 THEN store_list ELSE RemoveAt(store_list, i),
             held, "store")

\* async_edit with a name: the dict is changed in place, dict(birthday) is returned.
object_edit(birthday_id, name) ==
    LET i == FirstObject(birthday_id)
        c == NewDict
    IN  IF i = 0
        THEN Heap(dicts, lists, store_list, NoObject, "store")
        ELSE LET a == store_list[i]
                 edited == [Restrict(dicts, Elements(store_list)) EXCEPT ![a].name = name]
             IN  Heap(edited @@ (c :> edited[a]), lists, store_list,
                      Object("dict", c, "edit"), "store")

\* get_by_id: dict(birthday), a new dict with the same values.
object_get_by_id(birthday_id) ==
    LET i == FirstObject(birthday_id)
        c == NewDict
        ds == Restrict(dicts, Elements(store_list))
    IN  IF i = 0
        THEN Heap(dicts, lists, store_list, NoObject, "store")
        ELSE Heap(ds @@ (c :> ds[store_list[i]]), lists, store_list,
                  Object("dict", c, "get_by_id"), "store")

\* The birthdays property, list(self._birthdays), and the caller taking the
\* i-th record out of the list it was given.
object_birthdays(i) ==
    Heap(dicts, lists, store_list, Object("dict", store_list[i], "birthdays"), "store")

\* The caller changes what it was given: it assigns a key of the record, ...
CallerSetsName ==
    /\ held.kind = "dict"
    /\ dicts[held.a].name # "Mallory"
    /\ Heap([dicts EXCEPT ![held.a].name = "Mallory"], lists, store_list, held, "caller")

\* ... appends to the record's reminder list, ...
CallerAppendsReminder ==
    /\ held.kind = "dict"
    /\ 30 \notin Elements(lists[dicts[held.a].rdb])
    /\ Heap(dicts, [lists EXCEPT ![dicts[held.a].rdb] = Append(@, 30)], store_list,
            held, "caller")

\* ... or deletes from the list the birthdays property gave it: that list is
\* an object of its own, the store's list is not touched.
CallerPopsList ==
    /\ store_list # <<>>
    /\ actor # "caller"
    /\ Heap(dicts, lists, store_list, held, "caller")

ObjectAdd ==
    /\ Len(store_list) < MaxAliasRecords
    /\ \E newid \in HEX8, rdb \in Optional({<<3>>}) : object_add(newid, "Ann", rdb)
    /\ UNCHANGED <<storeVars, svcVars, listVars, dayVars, checkVars, schedVars,
                 normVars, ordVars, runVars>>

ObjectRemove ==
    /\ \E birthday_id \in HEX8 : object_remove(birthday_id)
    /\ UNCHANGED <<storeVars, svcVars, listVars, dayVars, checkVars, schedVars,
                 normVars, ordVars, runVars>>

ObjectEdit ==
    /\ \E birthday_id \in HEX8 : object_edit(birthday_id, "Bob")
    /\ UNCHANGED <<storeVars, svcVars, listVars, dayVars, checkVars, schedVars,
                 normVars, ordVars, runVars>>

ObjectGet ==
    /\ \E birthday_id \in HEX8 : object_get_by_id(birthday_id)
    /\ UNCHANGED <<storeVars, svcVars, listVars, dayVars, checkVars, schedVars,
                 normVars, ordVars, runVars>>

ObjectBirthdays ==
    /\ \E i \in 1..Len(store_list) : object_birthdays(i)
    /\ UNCHANGED <<storeVars, svcVars, listVars, dayVars, checkVars, schedVars,
                 normVars, ordVars, runVars>>

CallerSetName == CallerSetsName /\ UNCHANGED <<storeVars, svcVars, listVars, dayVars, checkVars, schedVars,
                 normVars, ordVars, runVars>>

CallerAppendReminder == CallerAppendsReminder /\ UNCHANGED <<storeVars, svcVars, listVars, dayVars, checkVars, schedVars,
                 normVars, ordVars, runVars>>

CallerPopList == CallerPopsList /\ UNCHANGED <<storeVars, svcVars, listVars, dayVars, checkVars, schedVars,
                 normVars, ordVars, runVars>>

AliasNext ==
    \/ ObjectAdd \/ ObjectRemove \/ ObjectEdit \/ ObjectGet \/ ObjectBirthdays
    \/ CallerSetName \/ CallerAppendReminder \/ CallerPopList

SpecAlias == Init /\ [][AliasNext]_vars

\* The records the store holds, read through its list: the values of its dicts.
Records(sl, ds, ls) ==
    [i \in 1..Len(sl) |->
        [id |-> ds[sl[i]].id, name |-> ds[sl[i]].name, date |-> ds[sl[i]].date,
         reminder_days_before |-> ls[ds[sl[i]].rdb], notes |-> ds[sl[i]].notes]]

\* ------------------------------------------- the daily check (SpecCheck)

\* birthday.get("reminder_days_before", default_reminder_days)
reminder_days_of(birthday) ==
    IF "reminder_days_before" \in DOMAIN birthday THEN birthday.reminder_days_before
    ELSE default_reminder_days

\* birthday.get("notes", "")
notes_of(birthday) == IF "notes" \in DOMAIN birthday THEN birthday.notes ELSE ""

\* A test that holds on every day from the first reminder day on.
InOrAfter(days, reminder_days) ==
    \E i \in 1..Len(reminder_days) : days <= reminder_days[i]

\* days in reminder_days
In(days, reminder_days) == \E i \in 1..Len(reminder_days) : days = reminder_days[i]

\* An event_data that formats the ordinal of every known age, zero included
\* (the mutant of event_data).
event_data_ordinal_of_zero(birthday, td) ==
    LET turning == _age_turning(birthday.date, td)
    IN  [name |-> birthday.name,
         date |-> _display_date(birthday.date),
         days_until |-> _days_until_birthday(birthday.date, td),
         age_turning |-> turning,
         age_turning_ordinal |->
             IF turning # None THEN Some(_ordinal(turning[1])) ELSE None,
         notes |-> notes_of(birthday),
         id |-> birthday.id]

\* The event_data of one birthday_tracker_reminder event.
event_data(birthday, td) ==
    LET turning == _age_turning(birthday.date, td)
    IN  [name |-> birthday.name,
         date |-> _display_date(birthday.date),
         days_until |-> _days_until_birthday(birthday.date, td),
         age_turning |-> turning,
         age_turning_ordinal |->
             IF turning # None /\ turning[1] # 0 THEN Some(_ordinal(turning[1])) ELSE None,
         notes |-> notes_of(birthday),
         id |-> birthday.id]

\* The events the loop of _async_check_birthdays fires over the records bs.
RECURSIVE Fired(_, _)
Fired(bs, td) ==
    IF bs = <<>> THEN <<>>
    ELSE (IF In(_days_until_birthday(Head(bs).date, td), reminder_days_of(Head(bs)))
          THEN <<event_data(Head(bs), td)>> ELSE <<>>) \o Fired(Tail(bs), td)

\* _async_check_birthdays(now), with td = now.date().
_async_check_birthdays(td) ==
    /\ reminders' = Reminders(TRUE, td, Fired(_birthdays, td))
    /\ UNCHANGED storeVars

\* A document of the storage helper whose one record has neither
\* reminder_days_before nor notes (the two keys the check reads with get).
BareDocument ==
    Document(<<[id |-> "5e4d3c2b", name |-> "Cy", date |-> Date(1990, 12, 25)]>>)

\* A leap day without a year, a birthday of 1990, and one in the year of the
\* reference days below.
CHECK_DATES == {Date(0, 2, 29), Date(1990, 12, 25), Date(2023, 12, 25)}

\* Days on which the dates above are 7, 3, 0, 365 and 3, 1 days away.
CHECK_TODAYS ==
    {Date(2023, 2, 21), Date(2023, 2, 25), Date(2023, 2, 28), Date(2023, 3, 1),
     Date(2023, 12, 22), Date(2023, 12, 24)}

\* The storage helper holds no document, or the bare one.
SpecCheckInit ==
    /\ _birthdays = <<>>
    /\ persisted \in {NoDocument, BareDocument}
    /\ call = NoCall
    /\ ret = Ret(FALSE, None)
    /\ SvcInit /\ AliasInit /\ ListInit /\ DayInit
    /\ CheckInit /\ SchedInit /\ NormInit /\ OrdInit /\ RunInit

CheckLoad ==
    /\ call.op = "none"
    /\ async_load
    /\ reminders' = NoReminders
    /\ UNCHANGED <<svcVars, aliasVars, listVars, dayVars, schedVars, normVars, ordVars, runVars>>

CheckAdd ==
    /\ Len(_birthdays) < MaxChecked
    /\ \E newid \in HEX8, date_str \in CHECK_DATES, rdb \in Optional({<<3>>}) :
           async_add(newid, "Ann", date_str, rdb, "likes cake")
    /\ reminders' = NoReminders
    /\ UNCHANGED <<svcVars, aliasVars, listVars, dayVars, schedVars, normVars, ordVars, runVars>>

CheckRemove ==
    /\ \E birthday_id \in HEX8 : async_remove(birthday_id)
    /\ reminders' = NoReminders
    /\ UNCHANGED <<svcVars, aliasVars, listVars, dayVars, schedVars, normVars, ordVars, runVars>>

Check ==
    /\ \E td \in CHECK_TODAYS : _async_check_birthdays(td)
    /\ UNCHANGED <<svcVars, aliasVars, listVars, dayVars, schedVars, normVars, ordVars, runVars>>

CheckNext == CheckLoad \/ CheckAdd \/ CheckRemove \/ Check

SpecCheck == SpecCheckInit /\ [][CheckNext]_vars

\* ---------------------------------------- the daily schedule (SpecSched)

\* hour, minute = (int(x) for x in time_str.split(":")): exactly two segments,
\* both integers, or ValueError.
hour_minute(time_str) ==
    IF Len(time_str) = 2 /\ IsInt(time_str[1]) /\ IsInt(time_str[2])
    THEN Parsed([hour |-> time_str[1].n, minute |-> time_str[2].n])
    ELSE Raised("ValueError")

\* async_track_time_change(hass, _async_check_birthdays, hour, minute, second=0):
\* a listener is active from here on; the handle is what its unsub cancels.
Listener(h, hour, minute) == [h |-> h, hour |-> hour, minute |-> minute]

\* The listeners left after the unsub of handle u is called.
Cancelled(ls, u) == {l \in ls : l.h # u[1]}

\* The unsub is called on a listener that was cancelled before.
Stale(u) == u # None /\ \A l \in listeners : l.h # u[1]

\* async_setup_entry, from the options to the listener (the store and the
\* services are set up in between).
async_setup_entry ==
    LET t == hour_minute(entry.notification_time)
        r == IF entry.default_reminder_days # <<>>
             THEN parse_reminder_days(entry.default_reminder_days)
             ELSE Parsed(DEFAULT_REMINDER_DAYS)
    IN  /\ entry.state = "not_loaded"
        /\ handles < MaxHandles
        /\ IF ~t.ok \/ ~r.ok
           THEN /\ entry' = [entry EXCEPT !.state = "setup_error"]
                /\ UNCHANGED <<listeners, unsub_time_listener, handles, firings,
                               default_reminder_days, hass_default_reminder_days>>
           ELSE /\ listeners' = listeners \cup
                                    {Listener(handles + 1, t.v[1].hour, t.v[1].minute)}
                /\ unsub_time_listener' = Some(handles + 1)
                /\ handles' = handles + 1
                /\ entry' = [entry EXCEPT !.state = "loaded"]
                /\ default_reminder_days' = r.v[1]
                /\ hass_default_reminder_days' = r.v[1]
                /\ UNCHANGED firings

\* As _async_options_updated, but without the call of old_unsub.
options_updated_keeping_old(new_time_str, new_reminder_str, unsub_raises) ==
    LET t == hour_minute(new_time_str)
        r == parse_reminder_days(new_reminder_str)
    IN  /\ entry' = [entry EXCEPT !.notification_time = new_time_str,
                                  !.default_reminder_days = new_reminder_str]
        /\ IF ~t.ok \/ (new_reminder_str # <<>> /\ ~r.ok)
           THEN UNCHANGED <<listeners, unsub_time_listener, handles,
                            hass_default_reminder_days>>
           ELSE /\ hass_default_reminder_days' =
                       IF new_reminder_str # <<>> THEN r.v[1]
                       ELSE hass_default_reminder_days
                /\ listeners' = listeners \cup
                                    {Listener(handles + 1, t.v[1].hour, t.v[1].minute)}
                /\ unsub_time_listener' = Some(handles + 1)
                /\ handles' = handles + 1

\* _async_options_updated, after the entry's options were set to the new
\* strings.  unsub_raises: what calling a stale unsub does (it is the host's).
_async_options_updated(new_time_str, new_reminder_str, unsub_raises) ==
    LET old_unsub == unsub_time_listener
        t == hour_minute(new_time_str)
        r == parse_reminder_days(new_reminder_str)
        left == IF old_unsub # None THEN Cancelled(listeners, old_unsub) ELSE listeners
    IN  /\ entry' = [entry EXCEPT !.notification_time = new_time_str,
                                  !.default_reminder_days = new_reminder_str]
        /\ IF Stale(old_unsub) /\ unsub_raises
           THEN UNCHANGED <<listeners, unsub_time_listener, handles,
                            hass_default_reminder_days>>
           ELSE IF ~t.ok
           THEN /\ listeners' = left
                /\ UNCHANGED <<unsub_time_listener, handles, hass_default_reminder_days>>
           ELSE IF new_reminder_str # <<>> /\ ~r.ok
           THEN /\ listeners' = left
                /\ UNCHANGED <<unsub_time_listener, handles, hass_default_reminder_days>>
           ELSE /\ hass_default_reminder_days' =
                       IF new_reminder_str # <<>> THEN r.v[1]
                       ELSE hass_default_reminder_days
                /\ listeners' = left \cup
                                    {Listener(handles + 1, t.v[1].hour, t.v[1].minute)}
                /\ unsub_time_listener' = Some(handles + 1)
                /\ handles' = handles + 1

\* async_unload_entry: unload_ok is what async_unload_platforms returns.
async_unload_entry(unload_ok, unsub_raises) ==
    LET unsub == unsub_time_listener
    IN  /\ entry.state = "loaded"
        /\ IF Stale(unsub) /\ unsub_raises
           THEN /\ entry' = [entry EXCEPT !.state = "failed_unload"]
                /\ UNCHANGED <<listeners, unsub_time_listener>>
           ELSE /\ listeners' = IF unsub # None THEN Cancelled(listeners, unsub)
                                ELSE listeners
                /\ unsub_time_listener' = IF unload_ok THEN None ELSE unsub
                /\ entry' = [entry EXCEPT !.state =
                                 IF unload_ok THEN "not_loaded" ELSE "failed_unload"]

\* The notification times the settings step lets through: two of the form
\* HH:MM, and "12:30:45", of which it reads the first two segments only.
TIMES ==
    {<<Num(12), Num(0)>>, <<Num(9), Num(30)>>, <<Num(12), Num(30), Num(45)>>}

DEFAULTS == {<<Num(7), Num(1), Num(0)>>, <<Num(3)>>}

Setup ==
    /\ async_setup_entry
    /\ UNCHANGED <<storeVars, req, aliasVars, listVars, dayVars, checkVars,
                   normVars, ordVars, runVars>>

\* The options are updated while the update listener is registered.
OptionsUpdated ==
    /\ entry.state \in {"loaded", "failed_unload"}
    /\ handles < MaxHandles
    /\ \E new_time_str \in TIMES, new_reminder_str \in DEFAULTS, unsub_raises \in BOOLEAN :
           _async_options_updated(new_time_str, new_reminder_str, unsub_raises)
    /\ UNCHANGED <<storeVars, default_reminder_days, req, firings, aliasVars, listVars,
                   dayVars, checkVars, normVars, ordVars, runVars>>

Unload ==
    /\ \E unload_ok \in BOOLEAN, unsub_raises \in BOOLEAN :
           async_unload_entry(unload_ok, unsub_raises)
    /\ UNCHANGED <<storeVars, svcVars, handles, firings, aliasVars, listVars, dayVars,
                   checkVars, normVars, ordVars, runVars>>

\* The clock reaches hour:minute:00, and every listener set to it runs the check.
TimeChange ==
    /\ \E t \in {tm \in TIMES : Len(tm) = 2} :
           firings' = Cardinality({l \in listeners :
                                      l.hour = t[1].n /\ l.minute = t[2].n})
    /\ UNCHANGED <<storeVars, svcVars, listeners, unsub_time_listener, entry, handles,
                   aliasVars, listVars, dayVars, checkVars, normVars, ordVars, runVars>>

SchedNext == Setup \/ OptionsUpdated \/ Unload \/ TimeChange

SpecSched == Init /\ [][SchedNext]_vars

\* ------------------------------------------ the date strings (SpecNorm)

\* The segments split("-") makes of a string the code formatted from integers.
AsString(fields) == [i \in 1..Len(fields) |-> Num(fields[i])]

\* Days, months and years of the date strings: in range, at and past the ends
\* of the ranges; a common year, a leap year, no year, and a year date() refuses.
INPUT_DAYS == {0, 1, 12, 28, 29, 30, 31, 32}

INPUT_MONTHS == {0, 1, 2, 4, 12, 13}

INPUT_YEARS == {0, 1990, 2000, 10000}

\* Strings of two and three integer segments, and "7", "1-2-3-4", "x-03", "1-"
\* and "".
DATE_STRINGS ==
    {<<Num(d), Num(m)>> : d \in INPUT_DAYS, m \in INPUT_MONTHS}
    \cup {<<Num(d), Num(m), Num(y)>> : d \in INPUT_DAYS, m \in INPUT_MONTHS, y \in INPUT_YEARS}
    \cup {<<Num(7)>>, <<Num(1), Num(2), Num(3), Num(4)>>, <<Text, Num(3)>>,
          <<Num(1), Blank>>, <<Blank>>}

\* Any of the strings, before a helper has seen it.
NormSpecInit ==
    /\ StoreInit /\ SvcInit /\ AliasInit /\ ListInit /\ DayInit
    /\ CheckInit /\ SchedInit /\ OrdInit /\ RunInit
    /\ date_input \in DATE_STRINGS
    /\ stage = "input"
    /\ normalized = NotYet
    /\ flow_normalized = NotYet
    /\ displayed = <<>>
    /\ renormalized = NotYet

\* The string reaches _normalize_date, of the services and of the options flow.
Normalize ==
    /\ stage = "input"
    /\ stage' = "normalized"
    /\ normalized' = normalize_date(date_input)
    /\ flow_normalized' = flow_normalize_date(date_input)
    /\ UNCHANGED <<date_input, displayed, renormalized>>
    /\ UNCHANGED <<storeVars, svcVars, aliasVars, listVars, dayVars, checkVars,
                   schedVars, ordVars, runVars>>

\* The stored date is shown: _display_date.
Display ==
    /\ stage = "normalized"
    /\ normalized.ok
    /\ stage' = "displayed"
    /\ displayed' = AsString(_display_date(normalized.v[1]))
    /\ UNCHANGED <<date_input, normalized, flow_normalized, renormalized>>
    /\ UNCHANGED <<storeVars, svcVars, aliasVars, listVars, dayVars, checkVars,
                   schedVars, ordVars, runVars>>

\* What was shown is sent back to _normalize_date.
Renormalize ==
    /\ stage = "displayed"
    /\ stage' = "renormalized"
    /\ renormalized' = normalize_date(displayed)
    /\ UNCHANGED <<date_input, normalized, flow_normalized, displayed>>
    /\ UNCHANGED <<storeVars, svcVars, aliasVars, listVars, dayVars, checkVars,
                   schedVars, ordVars, runVars>>

NormNext == Normalize \/ Display \/ Renormalize

SpecNorm == NormSpecInit /\ [][NormNext]_vars

\* ------------------------------------------------ the ordinals (SpecOrd)

\* The next integer is given its ordinal, by __init__.py and by calendar.py.
Count ==
    /\ number < MaxOrdinal
    /\ number' = number + 1
    /\ ordinal' = _ordinal(number + 1)
    /\ cal_ordinal' = calendar_ordinal(number + 1)
    /\ UNCHANGED <<storeVars, svcVars, aliasVars, listVars, dayVars, checkVars,
                   schedVars, normVars, runVars>>

OrdNext == Count

SpecOrd == Init /\ [][OrdNext]_vars

\* ------------------------------------------------------------------ claims

Indices == 1..Len(_birthdays)

\* C1: after any sequence of add, edit and remove no two records of the store
\* have the same id.
C1_UniqueIds ==
    \A i, j \in Indices : i # j => _birthdays[i].id # _birthdays[j].id

\* C2: add returns a record whose id no record already in the store has, and
\* get(id) with that id right afterwards returns exactly the name, date,
\* reminder days and notes that were added.
C2_AddThenGet ==
    [][call'.op = "add" =>
        LET b == ret'.value[1]
            a == call'.args[1]
        IN  /\ \A i \in Indices : _birthdays[i].id # b.id
            /\ get_by_id(_birthdays', b.id) =
                   Some([id |-> b.id, name |-> a.name, date |-> a.date,
                         reminder_days_before |->
                             IF a.reminder_days_before # None
                             THEN a.reminder_days_before[1]
                             ELSE DEFAULT_REMINDER_DAYS,
                         notes |-> a.notes])]_vars

\* C3: in every reachable store state, an edit of an existing id overwrites
\* exactly the fields given; the other fields of that record, its id, every
\* other record and the order of the records stay as they were.
C3_EditFrame ==
    \A birthday_id \in HEX8, kw \in KWARGS :
        LET r == StoreEdit(_birthdays, birthday_id, kw)
            Given(old, new, k) == IF k # None THEN new = k[1] ELSE new = old
        IN  (\E i \in Indices : _birthdays[i].id = birthday_id) =>
              /\ Len(r.birthdays) = Len(_birthdays)
              /\ r.value # None
              /\ \E i \in Indices :
                    /\ _birthdays[i].id = birthday_id
                    /\ r.value[1] = r.birthdays[i]
                    /\ \A j \in Indices \ {i} : r.birthdays[j] = _birthdays[j]
                    /\ r.birthdays[i].id = _birthdays[i].id
                    /\ Given(_birthdays[i].name, r.birthdays[i].name, kw.name)
                    /\ Given(_birthdays[i].date, r.birthdays[i].date, kw.date)
                    /\ Given(_birthdays[i].reminder_days_before,
                             r.birthdays[i].reminder_days_before,
                             kw.reminder_days_before)
                    /\ Given(_birthdays[i].notes, r.birthdays[i].notes, kw.notes)

\* An edit has found its record in a store of two records that differ.
C3_Witness ==
    /\ call.op = "edit"
    /\ ret.found
    /\ Len(_birthdays) = 2
    /\ _birthdays[1] # _birthdays[2]
    /\ ret.value[1] = _birthdays[2]

\* C4: remove with an id no record has returns False and leaves the record list
\* and the persisted document unchanged; with an id that exists it removes
\* exactly one record, one with that id, and returns True.
C4_Remove ==
    [][call'.op = "remove" =>
        IF \A i \in Indices : _birthdays[i].id # call'.id
        THEN /\ ret'.found = FALSE
             /\ _birthdays' = _birthdays
             /\ persisted' = persisted
        ELSE /\ ret'.found = TRUE
             /\ \E i \in Indices :
                   /\ _birthdays[i].id = call'.id
                   /\ _birthdays' = RemoveAt(_birthdays, i)]_vars

\* A remove did not find its id in a store that holds records and a document.
C4_Witness ==
    /\ call.op = "remove"
    /\ ~ret.found
    /\ Len(_birthdays) > 0
    /\ persisted.written

\* C6: after every completed add, successful remove and successful edit the
\* persisted document's list equals the in-memory list, record by record.
C6_PersistedOnMutation ==
    (call.op \in {"add", "remove", "edit"} /\ ret.found) =>
        /\ persisted.written
        /\ persisted.birthdays = _birthdays

\* A remove found its record and left a non-empty store behind.
C6_Witness ==
    /\ call.op = "remove"
    /\ ret.found
    /\ Len(_birthdays) > 0

\* C5: an add or edit request (service or options flow) that fails validation
\* of its date or reminder days leaves the record list and the persisted
\* document exactly as they were.
ValidationErrors == {"ValueError", "Invalid", "invalid_date", "invalid_days"}

C5_NoPartialWrite ==
    [][(/\ req'.handler \in {"add_birthday", "edit_birthday", "flow_add", "flow_edit"}
        /\ req'.outcome \in ValidationErrors)
       => (_birthdays' = _birthdays /\ persisted' = persisted)]_vars

\* An edit failed validation while the store held a record and a document.
C5_Witness ==
    /\ req.handler \in {"edit_birthday", "flow_edit"}
    /\ req.outcome \in ValidationErrors
    /\ Len(_birthdays) > 0
    /\ persisted.written

\* C7: readers receive copies: when a caller changes a record or a list it
\* got from the store (the birthdays property, get_by_id, the record add or
\* edit returned), the records the store holds stay as they are.
C7_ReadersGetCopies ==
    [][actor' = "caller" =>
        Records(store_list', dicts', lists') = Records(store_list, dicts, lists)]_vars

\* C9: for every valid stored date and every reference date, days-until is an
\* integer in the range 0 to 365 inclusive.
C9_DaysUntilRange == days_until \in 0..365 /\ cal_days \in 0..365

\* A birthday on 29 February is 365 days away on the day after it fell back to
\* 28 February.
C9_Witness ==
    /\ birthday_date = Date(0, 2, 29)
    /\ today = Date(FirstYear, 3, 1)
    /\ days_until = 365

\* dt is an occurrence of the stored date bd: the same month and day, with
\* 29 February taken as 28 February in a year that is not a leap year.
IsOccurrence(bd, dt) ==
    /\ dt.m = bd.m
    /\ \/ dt.d = bd.d
       \/ bd.m = 2 /\ bd.d = 29 /\ ~IsLeap(dt.y) /\ dt.d = 28

\* The occurrences of bd on or after td (those of earlier years are before td,
\* those of later years after next year's).
OccurrencesFrom(bd, td) ==
    {dt \in [y : {td.y, td.y + 1}, m : {bd.m}, d : 1..31] :
        /\ DateOK(dt.y, dt.m, dt.d)
        /\ IsOccurrence(bd, dt)
        /\ ~DateLess(dt, td)}

\* C10: days-until is the number of days from today to the earliest occurrence
\* of the stored date on or after today (29 February taken as 28 February in a
\* non-leap year), and it is 0 exactly when today is itself an occurrence; the
\* calendar's helpers agree.
C10_EarliestOccurrence ==
    LET occ == OccurrencesFrom(birthday_date, today)
        earliest == CHOOSE dt \in occ : \A o \in occ : ~DateLess(o, dt)
    IN  /\ occ # {}
        /\ days_until = DaysBetween(earliest, today)
        /\ (days_until = 0) <=> IsOccurrence(birthday_date, today)
        /\ cal_next = earliest
        /\ cal_days = days_until

\* On 28 February of a non-leap year a birthday on 29 February is today.
C10_Witness ==
    /\ birthday_date = Date(0, 2, 29)
    /\ today = Date(FirstYear, 2, 28)
    /\ ~IsLeap(today.y)
    /\ days_until = 0

\* C8: list_birthdays returns every record of the store exactly once, sorted
\* ascending by days-until, and records with equal days-until appear in the
\* order in which they were added to the store.
C8_ListSorted ==
    response.called =>
        LET r == response.birthdays
            n == Len(_birthdays)
        IN  /\ Len(r) = n
            /\ \E pi \in [1..n -> 1..n] :
                   /\ \A p, q \in 1..n : p # q => pi[p] # pi[q]
                   /\ \A p \in 1..n : r[p] = Listed(_birthdays[pi[p]], response.today)
                   /\ \A p, q \in 1..n :
                          p < q => /\ r[p].days_until <= r[q].days_until
                                   /\ r[p].days_until = r[q].days_until
                                          => stamps[pi[p]] < stamps[pi[q]]

\* A listing, after a removal, of three records of which the sort moved one:
\* two with distinct ids fall on the same day, the third falls later.
C8_Witness ==
    /\ response.called
    /\ Len(_birthdays) = 3
    /\ adds > 3
    /\ response.birthdays[1].days_until = response.birthdays[2].days_until
    /\ response.birthdays[1].id # response.birthdays[2].id
    /\ response.birthdays[2].days_until < response.birthdays[3].days_until
    /\ response.birthdays[1] # Listed(_birthdays[1], response.today)

\* The stored date of the input "29-02" on 1 March 2023.
LeapDayScenario ==
    /\ normalize_date(<<Num(29), Num(2)>>).ok
    /\ birthday_date = normalize_date(<<Num(29), Num(2)>>).v[1]
    /\ today = Date(2023, 3, 1)

\* C11 (as the code has it): for the date "29-02" with no year and the reference
\* date 2023-03-01, this year's fallback 2023-02-28 is already past, so the next
\* occurrence is 2024-02-29 and days-until is the 365 days to that date.
C11_LeapDayNextYear ==
    LeapDayScenario =>
        /\ cal_next = Date(2024, 2, 29)
        /\ days_until = DaysBetween(cal_next, today)
        /\ days_until = 365
        /\ cal_days = 365

C11_Witness == LeapDayScenario /\ cal_next = Date(2024, 2, 29) /\ days_until = 365

\* C11 as stated: in that scenario the next occurrence is 2023-02-28 and
\* days-until is computed against that date.
C11_AsStated ==
    LeapDayScenario =>
        /\ cal_next = Date(2023, 2, 28)
        /\ days_until = DaysBetween(Date(2023, 2, 28), today)

\* The occurrence of bd in the year of td.
OccurrenceThisYear(bd, td) ==
    CHOOSE dt \in [y : {td.y}, m : {bd.m}, d : 1..31] :
        DateOK(dt.y, dt.m, dt.d) /\ IsOccurrence(bd, dt)

\* C12: age-turning is unknown when the stored year is 0; otherwise it is the
\* year of the next occurrence on or after today minus the birth year, which is
\* the current year minus the birth year, plus 1 when this year's occurrence
\* is strictly before today; the calendar's summary takes its age from the
\* same difference.
C12_AgeTurning ==
    LET occ == OccurrencesFrom(birthday_date, today)
        earliest == CHOOSE dt \in occ : \A o \in occ : ~DateLess(o, dt)
        passed == DateLess(OccurrenceThisYear(birthday_date, today), today)
    IN  IF birthday_date.y = 0
        THEN age_turning = None /\ summary.ordinal = None
        ELSE /\ age_turning = Some(earliest.y - birthday_date.y)
             /\ age_turning = Some(today.y - birthday_date.y + (IF passed THEN 1 ELSE 0))
             /\ summary.ordinal # None => summary.ordinal[1].n = age_turning[1]

\* The day after 29 February 2000 fell back to 28 February: the age is that of
\* next year's birthday.
C12_Witness ==
    /\ birthday_date = Date(2000, 2, 29)
    /\ today = Date(FirstYear, 3, 1)
    /\ age_turning = Some(FirstYear + 1 - 2000)

\* C13: for a stored date with a known year, from the day of an occurrence to
\* the following day age-turning increases by exactly 1, and between any other
\* two consecutive days it does not change.
C13_AgeStep ==
    [][(birthday_date.y # 0 /\ birthday_date' = birthday_date /\ today' = NextDay(today))
          => age_turning'[1] - age_turning[1] = (IF IsOccurrence(birthday_date, today) THEN 1 ELSE 0)]_vars

\* The day after a birthday on 31 December is New Year's Day: the age has
\* moved on with the year.
C13_Witness ==
    /\ birthday_date = Date(2000, 12, 31)
    /\ today = Date(FirstYear + 1, 1, 1)
    /\ age_turning = Some(FirstYear + 1 - 2000)

\* The reminder set of a record: its reminder_days_before, the default set
\* configured at setup when it has none.
ReminderSet(b) ==
    IF "reminder_days_before" \in DOMAIN b THEN Elements(b.reminder_days_before)
    ELSE Elements(default_reminder_days)

\* The notification carries the record's name, display date, days-until, age
\* info, notes and id.
Carries(e, b, td) ==
    /\ e.name = b.name
    /\ e.date = _display_date(b.date)
    /\ e.days_until = _days_until_birthday(b.date, td)
    /\ e.age_turning = _age_turning(b.date, td)
    /\ e.age_turning_ordinal =
           (IF e.age_turning # None /\ e.age_turning[1] # 0
            THEN Some(_ordinal(e.age_turning[1])) ELSE None)
    /\ e.notes = (IF "notes" \in DOMAIN b THEN b.notes ELSE "")
    /\ e.id = b.id

C15_OneSchedule ==
    /\ Cardinality(listeners) <= 1
    /\ firings <= 1
    /\ \A l \in listeners : unsub_time_listener = Some(l.h)

\* The check has run once at 09:30, on the listener a second installation left.
C15_Witness ==
    /\ entry.state = "loaded"
    /\ handles >= 2
    /\ listeners = {Listener(handles, 9, 30)}
    /\ firings = 1

\* C16: every record of the store, after any sequence of add and edit requests
\* through the services or the options flow, has a reminder_days_before of
\* non-negative integers in strictly decreasing order (no negative value, no
\* duplicate).
C16_ReminderDaysSet ==
    \A i \in 1..Len(_birthdays) :
        LET r == _birthdays[i].reminder_days_before
        IN  /\ \A k \in 1..Len(r) : r[k] >= 0
            /\ \A k \in 1..(Len(r) - 1) : r[k] > r[k + 1]

\* C17: every entry path reads a date string as day-month or day-month-year,
\* so the options flow stores for a string what the services store for it.
C17_SameReading ==
    stage # "input" =>
        /\ flow_normalized.ok = normalized.ok
        /\ flow_normalized.v = normalized.v

\* The segments of the input are integers, two or three of them.
IntegerSegments ==
    /\ Len(date_input) \in {2, 3}
    /\ \A i \in 1..Len(date_input) : IsInt(date_input[i])

\* The year the input names: 0 when it has no third segment.
InputYear == IF Len(date_input) = 3 THEN date_input[3].n ELSE 0

\* C18 (as the code has it): normalization succeeds exactly for the inputs of
\* two or three integer segments whose day and month form a date of the given
\* year when a year other than 0 is given (a year from 1 to 9999), and of a
\* leap year otherwise; it then produces the year (0 when unknown), month and
\* day.  It fails with vol.Invalid for a wrong segment count and with
\* ValueError for a segment that is not an integer or a day, month or year out
\* of range.
C18_NormalizeAccepts ==
    stage # "input" =>
        LET valid == /\ IntegerSegments
                     /\ DateOK(IF InputYear # 0 THEN InputYear ELSE 2000,
                               date_input[2].n, date_input[1].n)
        IN  /\ normalized.ok <=> valid
            /\ valid => normalized.v =
                            Some(Date(InputYear, date_input[2].n, date_input[1].n))
            /\ ~valid => normalized.err =
                            (IF Len(date_input) \in {2, 3} THEN "ValueError" ELSE "Invalid")

\* "29-02-1990" has been refused: 1990 had no 29 February.
C18_Witness ==
    /\ stage = "normalized"
    /\ date_input = <<Num(29), Num(2), Num(1990)>>
    /\ normalized = Raised("ValueError")

\* C18 as stated: normalization succeeds for every input of two or three
\* integer segments whose day and month form a date of a leap year, whatever
\* the year segment, and fails for nothing but a wrong segment count or a day or
\* month out of range.
C18_AsStated ==
    stage # "input" =>
        LET leap_valid == /\ IntegerSegments
                          /\ DateOK(2000, date_input[2].n, date_input[1].n)
        IN  /\ leap_valid => normalized.v =
                                 Some(Date(InputYear, date_input[2].n, date_input[1].n))
            /\ IntegerSegments /\ ~normalized.ok =>
                   ~DateOK(2000, date_input[2].n, date_input[1].n)

\* C19: for every input x that normalization accepts,
\* normalize(display(normalize(x))) equals normalize(x).
C19_RoundTrip ==
    stage = "renormalized" => renormalized = normalized

\* "12-2-0" is stored as 0000-02-12, shown as "12-02" and read back.
C19_Witness ==
    /\ stage = "renormalized"
    /\ date_input = <<Num(12), Num(2), Num(0)>>
    /\ displayed = <<Num(12), Num(2)>>
    /\ renormalized.ok

\* The suffix keyed by the last digit of n.
LastDigitSuffix(n) ==
    CASE n % 10 = 1 -> "st"
      [] n % 10 = 2 -> "nd"
      [] n % 10 = 3 -> "rd"
      [] OTHER -> "th"

\* C20 (as the code has it): ordinal(n) is n followed by "th" when the last two
\* digits of n are 11, 12 or 13 (so also for 111, 112 and 113), and otherwise
\* by the suffix keyed by the last digit; ordinal(1) is "1st", ordinal(11)
\* "11th", ordinal(13) "13th" and ordinal(21) "21st"; calendar.py agrees.
C20_Ordinal ==
    /\ ordinal.n = number
    /\ ordinal.suffix = (IF number % 100 \in {11, 12, 13} THEN "th"
                         ELSE LastDigitSuffix(number))
    /\ number = 1 => ordinal.suffix = "st"
    /\ number \in {11, 13} => ordinal.suffix = "th"
    /\ number = 21 => ordinal.suffix = "st"
    /\ cal_ordinal = ordinal

\* 111 is "111th".
C20_Witness == number = 111 /\ ordinal = [n |-> 111, suffix |-> "th"]

\* C20 as stated: "th" when n is 11, 12 or 13, and otherwise the suffix keyed by
\* the last digit of n.
C20_AsStated ==
    ordinal.suffix = (IF number \in {11, 12, 13} THEN "th" ELSE LastDigitSuffix(number))

\* ------------------------------------------------ requests with an unknown id

\* The outcomes with which a service call ends in a raised exception: the
\* ValueError of _normalize_date and of int(), the vol.Invalid of the schema,
\* and the ValueError "Birthday with id ... not found".
ServiceErrors == {"ValueError", "Invalid", "not_found"}

\* C21 as stated: the remove_birthday service, called with an id that no
\* record has, completes without raising and leaves the store unchanged.
C21_RemoveUnknownCompletes ==
    [][\A birthday_id \in HEX8 :
          (/\ get_by_id(_birthdays, birthday_id) = None
           /\ handle_remove_birthday(birthday_id))
          => (/\ req'.outcome \notin ServiceErrors
              /\ _birthdays' = _birthdays
              /\ persisted' = persisted)]_vars

\* C22: an edit with an id that no record has gets None from the store, which
\* changes and saves nothing; the edit_birthday service ends in an error (the
\* not-found error whenever the data passed validation), the record list and
\* the persisted document stay as they were and no event is fired.
C22_EditUnknown ==
    [][\A birthday_id \in HEX8 :
          (req'.handler = "edit_birthday" /\ get_by_id(_birthdays, birthday_id) = None)
          => /\ \A kw \in KWARGS :
                   StoreEdit(_birthdays, birthday_id, kw)
                     = [birthdays |-> _birthdays, saved |-> FALSE, value |-> None]
             /\ \A nm \in Optional({"Bob"}), dt \in Optional(EDIT_DATE_INPUTS),
                   rd \in Optional(EDIT_REMINDER_INPUTS), nt \in Optional({"likes cake"}) :
                   \/ /\ req'.outcome \in ServiceErrors
                      /\ (dt \in {None, Some(<<Num(1), Num(2)>>)}
                          /\ rd \in {None, Some(<<Num(3)>>)})
                         => req'.outcome = "not_found"
                      /\ req'.fired = 0
                      /\ _birthdays' = _birthdays
                      /\ persisted' = persisted
                   \/ ~handle_edit_birthday(birthday_id, AddData(nm, dt, rd, nt))]_vars

\* edit_birthday ended with the not-found error while the store held another
\* record and its document.
C22_Witness ==
    /\ req = Request("edit_birthday", "not_found", 0)
    /\ Len(_birthdays) > 0
    /\ persisted.written

\* ------------------------------------------ the settings step (SpecSettings)

\* The notification_time check of async_step_settings: int(parts[0]) and
\* int(parts[1]) of time_str.split(":") (IndexError with one segment,
\* ValueError on text), then the range check; further segments are not read.
settings_time_errors(time_str) ==
    IF Len(time_str) < 2 THEN {"invalid_time"}
    ELSE IF ~IsInt(time_str[1]) \/ ~IsInt(time_str[2]) THEN {"invalid_time"}
    ELSE IF ~(0 <= time_str[1].n /\ time_str[1].n <= 23
              /\ 0 <= time_str[2].n /\ time_str[2].n <= 59) THEN {"invalid_time"}
    ELSE {}

\* The default_reminder_days check: int() of every non-blank segment, then
\* "not days or any(d < 0 for d in days)".
settings_days_errors(days_str) ==
    LET kept == SelectSeq(days_str, LAMBDA x : x.k # "blank")
    IN  IF \E i \in 1..Len(kept) : ~IsInt(kept[i]) THEN {"invalid_days"}
        ELSE IF kept = <<>> \/ \E i \in 1..Len(kept) : kept[i].n < 0
        THEN {"invalid_days"}
        ELSE {}

UserInput(time_str, days_str) ==
    [notification_time |-> time_str, default_reminder_days |-> days_str]

\* async_step_settings with a user_input.  Without errors it ends in
\* async_create_entry(data=user_input): the entry's options become the
\* user_input and the update listener, _async_options_updated, runs.  With
\* errors the form is shown again.
async_step_settings(user_input, unsub_raises) ==
    LET errs == settings_time_errors(user_input.notification_time)
                \cup settings_days_errors(user_input.default_reminder_days)
    IN  /\ submitted' = Some(user_input)
        /\ errors' = errs
        /\ IF errs = {}
           THEN _async_options_updated(user_input.notification_time,
                                       user_input.default_reminder_days, unsub_raises)
           ELSE UNCHANGED <<entry, listeners, unsub_time_listener, handles,
                            hass_default_reminder_days>>

\* Times a user submits: "12:00", "9:30", "12:30:45", "24:00", "12", "x:00".
SETTINGS_TIMES ==
    TIMES \cup {<<Num(24), Num(0)>>, <<Num(12)>>, <<Text, Num(0)>>}

\* Default reminder days a user submits: "7,1,0", "3", "", "1,-2", "x".
SETTINGS_DAYS == DEFAULTS \cup {<<>>, <<Num(1), Num(-2)>>, <<Text>>}

Settings ==
    /\ entry.state = "loaded"
    /\ handles < MaxHandles
    /\ \E time_str \in SETTINGS_TIMES, days_str \in SETTINGS_DAYS,
          unsub_raises \in BOOLEAN :
           async_step_settings(UserInput(time_str, days_str), unsub_raises)
    /\ UNCHANGED <<storeVars, default_reminder_days, req, firings, aliasVars, listVars,
                   dayVars, checkVars, normVars, ordVars, cal_event, tasks, calls, clockVars>>

\* The add_birthday service, called without reminder_days_before (the services
\* are registered by the setup and removed by the unload).
SettingsSvcAdd ==
    /\ entry.state = "loaded"
    /\ Len(_birthdays) < MaxSvcRecords
    /\ \E newid \in HEX8 :
          handle_add_birthday(AddData("Ann", <<Num(1), Num(2)>>, None, ""), newid)
    /\ UNCHANGED <<call, ret, default_reminder_days, hass_default_reminder_days,
                   aliasVars, listVars, dayVars, checkVars, schedVars, normVars,
                   ordVars, runVars>>

\* The options flow's add step, the reminder days left empty.
SettingsFlowAdd ==
    /\ entry.state = "loaded"
    /\ Len(_birthdays) < MaxSvcRecords
    /\ \E newid \in HEX8 :
          async_step_add_birthday(AddData("Ann", <<Num(1), Num(2)>>, <<>>, ""), newid)
    /\ UNCHANGED <<call, ret, default_reminder_days, hass_default_reminder_days,
                   aliasVars, listVars, dayVars, checkVars, schedVars, normVars,
                   ordVars, runVars>>

SettingsRemove ==
    /\ entry.state = "loaded"
    /\ \E birthday_id \in HEX8 : handle_remove_birthday(birthday_id)
    /\ UNCHANGED <<call, ret, default_reminder_days, hass_default_reminder_days,
                   aliasVars, listVars, dayVars, checkVars, schedVars, normVars,
                   ordVars, runVars>>

SettingsNext ==
    Setup \/ Settings \/ SettingsSvcAdd \/ SettingsFlowAdd \/ SettingsRemove

SpecSettings == Init /\ [][SettingsNext]_vars

\* The default reminder days the entry's options hold, as a list.
ConfiguredDefault == parse_reminder_days(entry.default_reminder_days).v[1]

\* C23 as stated: an add without reminder days, through the service or the
\* options flow, gives the record the default set the options hold at the
\* time of the add.
C23_AddGetsConfiguredDefault ==
    [][(/\ req'.handler \in {"add_birthday", "flow_add"}
        /\ req'.outcome = "ok"
        /\ Len(_birthdays') = Len(_birthdays) + 1)
       => _birthdays'[Len(_birthdays')].reminder_days_before = ConfiguredDefault]_vars

\* An HH:MM value between 00:00 and 23:59: two integer segments in range.
IsHHMM(time_str) ==
    /\ Len(time_str) = 2
    /\ IsInt(time_str[1]) /\ time_str[1].n \in 0..23
    /\ IsInt(time_str[2]) /\ time_str[2].n \in 0..59

\* A non-empty list of integers, none of them negative.
IsDayList(days_str) ==
    /\ days_str # <<>>
    /\ \A i \in 1..Len(days_str) : IsInt(days_str[i]) /\ days_str[i].n >= 0

\* C24 as stated: the settings step accepts a submission exactly when the
\* time is an HH:MM value and the default reminder days are a non-empty list
\* without negative values; a rejected submission carries invalid_time or
\* invalid_days and leaves the options and the schedule as they were.
C24_SettingsValidation ==
    [][\A time_str \in SETTINGS_TIMES, days_str \in SETTINGS_DAYS,
          unsub_raises \in BOOLEAN :
          async_step_settings(UserInput(time_str, days_str), unsub_raises)
          => IF IsHHMM(time_str) /\ IsDayList(days_str)
             THEN errors' = {}
             ELSE /\ errors' # {}
                  /\ errors' \subseteq {"invalid_time", "invalid_days"}
                  /\ UNCHANGED <<entry, listeners, unsub_time_listener,
                                 hass_default_reminder_days>>]_vars

\* C27 as stated: after a submission the settings step accepted, exactly one
\* listener is active, at the submitted hour and minute.
C27_OneScheduleAfterSettings ==
    [][\A time_str \in SETTINGS_TIMES, days_str \in SETTINGS_DAYS,
          unsub_raises \in BOOLEAN :
          (/\ async_step_settings(UserInput(time_str, days_str), unsub_raises)
           /\ errors' = {})
          => /\ Cardinality(listeners') = 1
             /\ \A l \in listeners' :
                   l.hour = time_str[1].n /\ l.minute = time_str[2].n]_vars

\* ------------------------------------------------ the ordinal of age-turning

\* C26 as stated: list() and the reminder attach an ordinal exactly when
\* age-turning is known.
C26_OrdinalWhenAgeKnown ==
    \A i \in 1..Len(_birthdays), td \in CHECK_TODAYS :
        LET b == _birthdays[i]
        IN  /\ "reminder_days_before" \in DOMAIN b
                  => ((Listed(b, td).age_turning_ordinal # None)
                         <=> (Listed(b, td).age_turning # None))
            /\ (event_data(b, td).age_turning_ordinal # None)
                  <=> (event_data(b, td).age_turning # None)

\* C26, corrected: for every record, list() and the reminder carry the same
\* age-turning, which is known exactly when the record has a birth year; they
\* attach the ordinal of that age exactly when it is known and is not 0 (a
\* record whose next birthday is the day of birth itself has age-turning 0
\* and no ordinal); a record without a year gets neither age nor ordinal.
\* (list() reads b["reminder_days_before"], so it lists only records that
\* have the key.)
C26_OrdinalWhenAgeNotZero ==
    \A i \in 1..Len(_birthdays), td \in CHECK_TODAYS :
        LET b == _birthdays[i]
            age == _age_turning(b.date, td)
            ord == IF age # None /\ age[1] # 0 THEN Some(_ordinal(age[1])) ELSE None
        IN  /\ (age # None) <=> (b.date.y # 0)
            /\ "reminder_days_before" \in DOMAIN b
                  => /\ Listed(b, td).age_turning = age
                     /\ Listed(b, td).age_turning_ordinal = ord
            /\ event_data(b, td).age_turning = age
            /\ event_data(b, td).age_turning_ordinal = ord
            /\ \A k \in 1..Len(reminders.events) :
                  LET e == reminders.events[k]
                  IN  e.age_turning_ordinal =
                          IF e.age_turning \notin {None, Some(0)}
                          THEN Some(_ordinal(e.age_turning[1])) ELSE None

\* The check fired a reminder for a record that turns 0 (no ordinal) and one
\* for a record that turns 33 (the ordinal "33rd").
C26_Witness ==
    /\ reminders.ran
    /\ \E k \in 1..Len(reminders.events) :
          /\ reminders.events[k].age_turning = Some(0)
          /\ reminders.events[k].age_turning_ordinal = None
    /\ \E k \in 1..Len(reminders.events) :
          /\ reminders.events[k].age_turning = Some(33)
          /\ reminders.events[k].age_turning_ordinal = Some([n |-> 33, suffix |-> "rd"])

\* ------------------------------------------- the calendar's next event (SpecCal)

\* The store holds at most this many records in the calendar specification.
MaxCalRecords == 2

\* The loop of the event property that keeps the last record on a tie (the
\* mutant of closest).
RECURSIVE closest_last_tie(_, _, _, _, _)
closest_last_tie(bs, td, i, best, best_days) ==
    IF i > Len(bs) THEN best
    ELSE LET days == _days_until(bs[i].date, td)
         IN  IF days <= best_days THEN closest_last_tie(bs, td, i + 1, i, days)
             ELSE closest_last_tie(bs, td, i + 1, best, best_days)

\* The loop of the event property from record i on: best is the index of
\* closest (0 for None), best_days is closest_days.
RECURSIVE closest(_, _, _, _, _)
closest(bs, td, i, best, best_days) ==
    IF i > Len(bs) THEN best
    ELSE LET days == _days_until(bs[i].date, td)
         IN  IF days < best_days THEN closest(bs, td, i + 1, i, days)
             ELSE closest(bs, td, i + 1, best, best_days)

CalendarEvent(start, end, smry, description, uid) ==
    [start |-> start, end |-> end, summary |-> smry, description |-> description,
     uid |-> uid]

\* The event property of BirthdayCalendar, with td = date.today().
event(td) ==
    LET birthdays == _birthdays
        c == closest(birthdays, td, 1, 0, 999999)
    IN  IF birthdays = <<>> \/ c = 0 THEN None
        ELSE LET event_date == _next_occurrence(birthdays[c].date, td)
             IN  Some(CalendarEvent(event_date, NextDay(event_date),
                                    _build_summary(birthdays[c], event_date),
                                    notes_of(birthdays[c]), birthdays[c].id))

CalRead(called, td, ev) == [called |-> called, today |-> td, event |-> ev]

NotRead == CalRead(FALSE, Date(1, 1, 1), None)

CalAdd ==
    /\ Len(_birthdays) < MaxCalRecords
    /\ \E newid \in HEX8, date_str \in LIST_DATES :
           async_add(newid, "Ann", date_str, None, "")
    /\ response' = NoResponse
    /\ cal_event' = NotRead
    /\ UNCHANGED <<stamps, adds, svcVars, aliasVars, dayVars, checkVars, schedVars,
                   normVars, ordVars, submitted, errors, tasks, calls, clockVars>>

CalRemove ==
    /\ \E birthday_id \in HEX8 : async_remove(birthday_id)
    /\ response' = NoResponse
    /\ cal_event' = NotRead
    /\ UNCHANGED <<stamps, adds, svcVars, aliasVars, dayVars, checkVars, schedVars,
                   normVars, ordVars, submitted, errors, tasks, calls, clockVars>>

\* The list_birthdays service is called.
CalList ==
    /\ \E td \in LIST_TODAYS : handle_list_birthdays(td)
    /\ UNCHANGED <<svcVars, aliasVars, dayVars, checkVars, schedVars,
                   normVars, ordVars, runVars>>

\* The calendar entity's state is read.
CalEvent ==
    /\ \E td \in LIST_TODAYS : cal_event' = CalRead(TRUE, td, event(td))
    /\ UNCHANGED <<storeVars, svcVars, aliasVars, listVars, dayVars, checkVars,
                   schedVars, normVars, ordVars, submitted, errors, tasks, calls, clockVars>>

CalNext == CalAdd \/ CalRemove \/ CalList \/ CalEvent

SpecCal == Init /\ [][CalNext]_vars

\* The smallest days-until of the store's records on day td.
SmallestDaysUntil(td) ==
    Min({_days_until_birthday(_birthdays[i].date, td) : i \in 1..Len(_birthdays)})

\* The earliest inserted record with that days-until (async_add appends and
\* async_remove keeps the order, so the list's order is the insertion order).
EarliestClosest(td) ==
    Min({i \in 1..Len(_birthdays) :
            _days_until_birthday(_birthdays[i].date, td) = SmallestDaysUntil(td)})

\* C30: when list_birthdays and the calendar's event property are read on the
\* same day over the same store: for an empty store there is no event and
\* nothing listed; otherwise the event is that of the record list() returns
\* first, which is the earliest inserted record with the smallest days-until,
\* and it starts on that record's next occurrence, days-until days from today,
\* and ends the day after.
C30_NextEventIsFirstListed ==
    (response.called /\ cal_event.called /\ response.today = cal_event.today)
    => LET td == cal_event.today
       IN  IF _birthdays = <<>>
           THEN cal_event.event = None /\ response.birthdays = <<>>
           ELSE LET first == response.birthdays[1]
                    b == _birthdays[EarliestClosest(td)]
                    e == cal_event.event[1]
                IN  /\ cal_event.event # None
                    /\ first = Listed(b, td)
                    /\ first.days_until = SmallestDaysUntil(td)
                    /\ e.uid = first.id
                    /\ e.uid = b.id
                    /\ e.description = first.notes
                    /\ e.summary.name = first.name
                    /\ e.start = _next_occurrence(b.date, td)
                    /\ DaysBetween(e.start, td) = first.days_until
                    /\ e.end = NextDay(e.start)

\* Both were read on 2023-02-28, when two records with different ids, the
\* first dated 29 February and the second 28 February, are both 0 days away.
C30_Witness ==
    /\ response.called /\ cal_event.called
    /\ response.today = Date(2023, 2, 28) /\ cal_event.today = Date(2023, 2, 28)
    /\ Len(_birthdays) = 2
    /\ _birthdays[1].date = Date(0, 2, 29) /\ _birthdays[2].date = Date(0, 2, 28)
    /\ _birthdays[1].id # _birthdays[2].id
    /\ cal_event.event # None
    /\ cal_event.event[1].uid = _birthdays[1].id

\* ------------------------------------------------ the birthdays-updated event

\* C29: a request, through a service or the options flow, that changes the
\* record list or the document ends successfully, with the document equal to
\* the list and exactly one birthdays-updated event fired; a service request
\* that ends in an error (invalid input or unknown id) fires none.
C29_OneEventPerChange ==
    [][/\ (_birthdays' # _birthdays \/ persisted' # persisted)
          => /\ req'.outcome = "ok"
             /\ req'.fired = 1
             /\ persisted' = Document(_birthdays')
       /\ (req'.handler \in {"add_birthday", "remove_birthday", "edit_birthday"}
           /\ req'.outcome \in ServiceErrors)
          => req'.fired = 0]_vars

\* The options flow removed the store's record and fired the event once.
C29_Witness ==
    /\ req = Request("flow_remove", "ok", 1)
    /\ _birthdays = <<>>
    /\ persisted = Document(<<>>)

\* --------------------------- concurrent calls of the store (SpecTasks)
\* A call of async_add, async_remove or async_edit runs on the event loop
\* without interruption up to its "await self._async_save()": the change of
\* self._birthdays is made before that await.  While the call is suspended
\* other calls run.  _async_save hands the storage helper a dict that holds
\* the list self._birthdays itself, not a copy, so what the helper writes is
\* the list as it is at the moment the helper serialises it, some time between
\* the call of async_save and its completion.

Task(op, pc, id) == [op |-> op, pc |-> pc, id |-> id]

\* A task can take a new call: it made none yet, or its last one returned.
Free(t) == tasks[t].pc \in {"idle", "done"}

Called(t, op, pc, id) ==
    /\ tasks' = [tasks EXCEPT ![t] = Task(op, pc, id)]
    /\ calls' = calls + 1

\* async_add up to its await.
call_add(t, newid, name, notes) ==
    /\ _birthdays' = StoreAdd(_birthdays, newid, name, Date(0, 2, 29), None, notes).birthdays
    /\ Called(t, "add", "saving", newid)

\* A remove that returns True without the call of _async_save (the mutant of
\* call_remove).
call_remove_unsaved(t, birthday_id) ==
    LET r == StoreRemove(_birthdays, birthday_id)
    IN  /\ _birthdays' = r.birthdays
        /\ Called(t, "remove", "done", birthday_id)

\* async_remove up to its await, or to "return False" when no record has the id.
call_remove(t, birthday_id) ==
    LET r == StoreRemove(_birthdays, birthday_id)
    IN  /\ _birthdays' = r.birthdays
        /\ Called(t, "remove", IF r.found THEN "saving" ELSE "done", birthday_id)

\* async_edit up to its await, or to "return None" when no record has the id:
\* all the keys of kwargs are assigned before the await.
call_edit(t, birthday_id, kw) ==
    LET r == StoreEdit(_birthdays, birthday_id, kw)
    IN  /\ _birthdays' = r.birthdays
        /\ Called(t, "edit", IF r.value # None THEN "saving" ELSE "done", birthday_id)

\* The storage helper serialises the data of the suspended call t: the list
\* self._birthdays as it is now.
write_data(t) ==
    /\ tasks[t].pc = "saving"
    /\ persisted' = Document(_birthdays)
    /\ tasks' = [tasks EXCEPT ![t].pc = "written"]

\* The await of call t completes and the call returns.
resume(t) ==
    /\ tasks[t].pc = "written"
    /\ tasks' = [tasks EXCEPT ![t].pc = "done"]

\* The fields an edit is called with: a new name and new notes.
TASK_KWARGS == Kwargs(Some("Bob"), None, None, Some("likes cake"))

TaskAdd ==
    /\ calls < MaxCalls
    /\ Len(_birthdays) < MaxRecords
    /\ \E t \in 1..MaxTasks, newid \in HEX8 : Free(t) /\ call_add(t, newid, "Ann", "")
    /\ UNCHANGED <<persisted, call, ret, svcVars, aliasVars, listVars, dayVars,
                   checkVars, schedVars, normVars, ordVars, submitted, errors,
                   cal_event, clockVars>>

TaskRemove ==
    /\ calls < MaxCalls
    /\ \E t \in 1..MaxTasks, birthday_id \in HEX8 : Free(t) /\ call_remove(t, birthday_id)
    /\ UNCHANGED <<persisted, call, ret, svcVars, aliasVars, listVars, dayVars,
                   checkVars, schedVars, normVars, ordVars, submitted, errors,
                   cal_event, clockVars>>

TaskEdit ==
    /\ calls < MaxCalls
    /\ \E t \in 1..MaxTasks, birthday_id \in HEX8 :
           Free(t) /\ call_edit(t, birthday_id, TASK_KWARGS)
    /\ UNCHANGED <<persisted, call, ret, svcVars, aliasVars, listVars, dayVars,
                   checkVars, schedVars, normVars, ordVars, submitted, errors,
                   cal_event, clockVars>>

TaskWrite ==
    /\ \E t \in 1..MaxTasks : write_data(t)
    /\ UNCHANGED <<_birthdays, call, ret, calls, svcVars, aliasVars, listVars, dayVars,
                   checkVars, schedVars, normVars, ordVars, submitted, errors,
                   cal_event, clockVars>>

TaskResume ==
    /\ \E t \in 1..MaxTasks : resume(t)
    /\ UNCHANGED <<_birthdays, persisted, call, ret, calls, svcVars, aliasVars,
                   listVars, dayVars, checkVars, schedVars, normVars, ordVars,
                   submitted, errors, cal_event, clockVars>>

TasksNext == TaskAdd \/ TaskRemove \/ TaskEdit \/ TaskWrite \/ TaskResume

SpecTasks == Init /\ [][TasksNext]_vars

\* No call is in progress.
Quiescent == \A t \in 1..MaxTasks : Free(t)

\* The records whose id is birthday_id.
WithId(birthday_id) == {i \in 1..Len(_birthdays) : _birthdays[i].id = birthday_id}

\* The whole change of the call task t has just made, as one step from
\* _birthdays to _birthdays'.
WholeChange(t) ==
    LET c == tasks'[t]
        hits == WithId(c.id)
    IN  /\ Free(t)
        /\ \A u \in 1..MaxTasks \ {t} : tasks'[u] = tasks[u]
        /\ c.op = "add" =>
              /\ c.pc = "saving"
              /\ _birthdays' = Append(_birthdays,
                                      [id |-> c.id, name |-> "Ann", date |-> Date(0, 2, 29),
                                       reminder_days_before |-> DEFAULT_REMINDER_DAYS,
                                       notes |-> ""])
        /\ c.op = "remove" =>
              IF hits = {} THEN c.pc = "done" /\ _birthdays' = _birthdays
              ELSE c.pc = "saving" /\ _birthdays' = RemoveAt(_birthdays, Min(hits))
        /\ c.op = "edit" =>
              IF hits = {} THEN c.pc = "done" /\ _birthdays' = _birthdays
              ELSE /\ c.pc = "saving"
                   /\ _birthdays' = [_birthdays EXCEPT ![Min(hits)].name = "Bob",
                                                       ![Min(hits)].notes = "likes cake"]
        /\ c.op \in {"add", "remove", "edit"}

\* C28: calls of async_add, async_remove and async_edit interleave at their
\* awaits in any order.  Each call changes the record list in exactly one
\* step, the one in which it is made, and that step holds its whole change
\* (an edit's fields all at once); the steps in which a suspended call is
\* written or resumed leave the list alone; and whenever no call is in
\* progress the persisted document equals the record list (no document was
\* written only while the list was never changed).
C28_AtomicAndPersisted ==
    [][/\ calls' = calls => _birthdays' = _birthdays
       /\ calls' # calls =>
             /\ calls' = calls + 1
             /\ \E t \in 1..MaxTasks : WholeChange(t)
       /\ Quiescent' =>
             \/ persisted' = Document(_birthdays')
             \/ persisted' = NoDocument /\ _birthdays' = <<>>]_vars

\* An edit is suspended at its await, after a call that was made before it
\* has been written: the document is one change behind the list.
C28_Witness ==
    /\ \E t, u \in 1..MaxTasks :
          /\ tasks[t].pc = "saving" /\ tasks[t].op = "edit"
          /\ tasks[u].pc = "written" /\ tasks[u].op = "add"
    /\ persisted.written
    /\ persisted # Document(_birthdays)
    /\ Len(_birthdays) = Len(persisted.birthdays)

\* --------------------------------------- the check through the day (SpecClock)

\* The times of day the clock is seen at: 00:00, 09:30, 12:00 and 12:30.
CLOCK_TIMES ==
    <<[hour |-> 0, minute |-> 0], [hour |-> 9, minute |-> 30],
      [hour |-> 12, minute |-> 0], [hour |-> 12, minute |-> 30]>>

\* A listener that runs at every time of its hour (the mutant of Due).
DueInHour(l, time) == l.hour = time.hour

\* async_track_time_change(..., hour=hour, minute=minute, second=0): the
\* listener runs when the clock reaches hour:minute:00.
Due(l, time) == l.hour = time.hour /\ l.minute = time.minute

\* Whether _async_check_birthdays fires a reminder for this record on day td.
Matches(birthday, td) ==
    In(_days_until_birthday(birthday.date, td), reminder_days_of(birthday))

\* The clock reaches its next time, on the same day or, after the last time,
\* on the next: every listener due then runs _async_check_birthdays.
time_change ==
    LET wraps == slot = Len(CLOCK_TIMES)
        next_slot == IF wraps THEN 1 ELSE slot + 1
        td == IF wraps THEN NextDay(today) ELSE today
        due == {l \in listeners : Due(l, CLOCK_TIMES[next_slot])}
        n == Cardinality(due)
        so_far == IF wraps THEN [i \in 1..Len(_birthdays) |-> 0] ELSE received
    IN  /\ wraps => DaysBetween(today, Date(FirstYear, 1, 1)) < MaxDays - 1
        /\ slot' = next_slot
        /\ today' = td
        /\ changed_at' = IF wraps THEN None ELSE changed_at
        /\ firings' = n
        /\ reminders' = IF n > 0 THEN Reminders(TRUE, td, Fired(_birthdays, td))
                        ELSE reminders
        /\ received' = [i \in 1..Len(_birthdays) |->
                           so_far[i] + (IF Matches(_birthdays[i], td) THEN n ELSE 0)]

\* The store holds at most this many records in the clock specification.
MaxClockRecords == 1

\* The stored dates of the clock specification: 1 and 2 January.
CLOCK_DATES == {Date(0, 1, 1), Date(0, 1, 2)}

ClockSetup ==
    /\ async_setup_entry
    /\ UNCHANGED <<storeVars, req, aliasVars, listVars, dayVars, checkVars,
                   normVars, ordVars, runVars>>

\* The clock is followed from the setup on.
ClockTimeChange ==
    /\ entry.state = "loaded"
    /\ time_change
    /\ UNCHANGED <<storeVars, svcVars, listeners, unsub_time_listener, entry, handles,
                   aliasVars, listVars, birthday_date, days_until, cal_next, cal_days,
                   age_turning, summary, normVars, ordVars, submitted, errors,
                   cal_event, tasks, calls>>

\* The options are updated at the present time of day.
ClockOptionsUpdated ==
    /\ entry.state = "loaded"
    /\ handles < MaxHandles
    /\ \E new_time_str \in TIMES, unsub_raises \in BOOLEAN :
           _async_options_updated(new_time_str, entry.default_reminder_days,
                                  unsub_raises)
    /\ changed_at' = Some(slot)
    /\ UNCHANGED <<storeVars, default_reminder_days, req, firings, aliasVars, listVars,
                   dayVars, checkVars, normVars, ordVars, submitted, errors,
                   cal_event, tasks, calls, slot, received>>

ClockAdd ==
    /\ entry.state = "loaded"
    /\ Len(_birthdays) < MaxClockRecords
    /\ \E newid \in HEX8, date_str \in CLOCK_DATES :
           async_add(newid, "Ann", date_str, None, "")
    /\ received' = Append(received, 0)
    /\ UNCHANGED <<svcVars, aliasVars, listVars, dayVars, checkVars, schedVars,
                   normVars, ordVars, submitted, errors, cal_event, tasks, calls,
                   slot, changed_at>>

\* A record's reminder days are edited to [5], which matches on neither day.
ClockEdit ==
    /\ entry.state = "loaded"
    /\ \E birthday_id \in HEX8 :
           async_edit(birthday_id, Kwargs(None, None, Some(<<5>>), None))
    /\ UNCHANGED <<svcVars, aliasVars, listVars, dayVars, checkVars, schedVars,
                   normVars, ordVars, runVars>>

ClockNext ==
    ClockSetup \/ ClockTimeChange \/ ClockOptionsUpdated \/ ClockAdd \/ ClockEdit

SpecClock == Init /\ [][ClockNext]_vars

\* C25: on a day on which the schedule was not changed every record has
\* received at most one reminder; and a record that already received one gets
\* a further one that day only from a single run of the check, at a time
\* later than the moment the schedule was changed that day, and only while
\* its days-until is in its reminder set.
C25_OncePerDay ==
    [][/\ changed_at' = None => \A i \in 1..Len(received') : received'[i] <= 1
       /\ \A i \in 1..Len(received) :
             (today' = today /\ received[i] >= 1 /\ received'[i] > received[i])
             => /\ received'[i] = received[i] + 1
                /\ changed_at' # None
                /\ changed_at'[1] < slot'
                /\ Matches(_birthdays'[i], today')]_vars

\* The check ran at 12:00, the schedule was moved to 12:30 in between, and the
\* record has its second reminder of the day.
C25_Witness ==
    /\ slot = 4
    /\ changed_at = Some(3)
    /\ \E i \in 1..Len(received) : received[i] = 2

====
